---------------------------- MODULE Spec2Model ----------------------------
(***************************************************************************)
(* Model of the restaurant ordering backend: the order workflow            *)
(* (order.service.ts), the delivery workflow (delivery.service.ts) and the *)
(* offline sync coordinator (queue.service.ts).                            *)
(*                                                                         *)
(* Conventions.                                                            *)
(*  - An order's id is its index in `orders`, a delivery's id its index in *)
(*    `deliveries` (database ids are fresh and never reused; rows are      *)
(*    never deleted by the services).                                      *)
(*  - Money is counted in thousandths of the currency unit, so that the    *)
(*    10% tax of a price given in cents is an exact integer.  Binary       *)
(*    floating point rounding of the JavaScript arithmetic is outside the  *)
(*    model.                                                               *)
(*  - Every service call is one action.  A call that throws changes only   *)
(*    `last`, the outcome of the most recent call.                         *)
(***************************************************************************)
EXTENDS Integers, Sequences, FiniteSets, TLC

VARIABLES
    orders,       \* Seq of Order rows
    statusLog,    \* history: for each order, the set of statuses it has had
    deliveries,   \* Seq of Delivery rows
    drivers,      \* driver id -> Driver row
    carts,        \* user id -> Seq of CartItem rows
    menuItems,    \* menu item id -> MenuItem row
    clientMap,    \* key-value store: dedup key -> {orderId, orderNumber}
    sync,         \* sync call -> state of that syncOrders invocation
    last,         \* outcome of the most recent service call
    queue,        \* key-value store: the list order:queue
    processing,   \* key-value store: the marker order:processing, <<>> when absent
    isProcessing, \* QueueService.isProcessing
    drains,       \* processQueue call -> state of that invocation
    producers,    \* enqueueOrders call -> state of that invocation
    attempts,     \* history: the queued items createOrder was called for, in order
    pushCount,    \* history: the number of items ever pushed onto the list
    clearing,     \* a clearQueue call is between its two deletions
    calls,        \* request -> state of a service call that other calls may overlap
    auth          \* users' password hashes and refresh tokens, and the OTP keys of the store

\* the state of the background queue
queueVars == <<queue, processing, isProcessing, drains, producers, attempts, pushCount,
               clearing>>

vars == <<orders, statusLog, deliveries, drivers, carts, menuItems, clientMap, sync, last,
          queueVars, calls, auth>>

---------------------------------------------------------------------------
(* Bounds of the model *)

MaxOrders == 2      \* orders created in the lifecycle specification
MaxBatch == 3       \* items in one sync batch
MaxQuantity == 2    \* quantity of one line
MaxLines == 2       \* lines of one explicit item list
MaxCartQuantity == 3  \* total quantity held by one cart
MaxQueued == 3      \* items pushed onto the queue in one run
MaxEnqueue == 2     \* items of one enqueueOrders call
MaxRetryBatch == 2  \* items of a batch that is sent again while it is processed
MaxContended == 1   \* orders that overlapping status requests are sent for
MaxPriced == 1      \* orders placed while the menu is maintained
MaxFleet == 3       \* drivers the dispatcher looks up

---------------------------------------------------------------------------
(* The world the services run in *)

Users == {"u1", "u2"}
Restaurants == {"r1", "r2"}
DriverIds == {"d1", "d2"}
MenuIds == {"m1", "m2", "m3", "m4"}
ClientIds == {"c1", "c2"}
\* createdAt strings accepted by z.string().datetime()
CreatedAts == {"2024-05-01T10:00:00Z", "2024-05-01T10:00:01Z"}
SyncCalls == {1, 2}
DrainCalls == {1, 2}
ProducerCalls == {1, 2}
Requests == {1, 2}

\* ids that name no row
NoRestaurant == "rX"
NoMenuItem == "mX"
NoDriver == "dX"
NoCategory == "kX"

\* the menu categories: each belongs to one restaurant
MenuCategories ==
    [k \in {"k1", "k2"} |-> [restaurantId |-> IF k = "k1" THEN "r1" ELSE "r2"]]

\* prisma/seed.ts prices 8.99, 5.99, 12.99, 2.99 in thousandths
SeedMenu ==
    [m \in MenuIds |->
        CASE m = "m1" -> [price |-> 8990, isAvailable |-> TRUE, categoryId |-> "k1"]
          [] m = "m2" -> [price |-> 5990, isAvailable |-> TRUE, categoryId |-> "k1"]
          [] m = "m3" -> [price |-> 12990, isAvailable |-> TRUE, categoryId |-> "k2"]
          [] m = "m4" -> [price |-> 2990, isAvailable |-> FALSE, categoryId |-> "k1"]]

OrderStatus == {"PENDING", "CONFIRMED", "PREPARING", "ON_THE_WAY", "DELIVERED", "CANCELLED"}
DeliveryStatus == {"ASSIGNED", "PICKED_UP", "IN_TRANSIT", "DELIVERED"}

STATUS_TRANSITIONS ==
    [s \in OrderStatus |->
        CASE s = "PENDING" -> {"CONFIRMED", "CANCELLED"}
          [] s = "CONFIRMED" -> {"PREPARING", "CANCELLED"}
          [] s = "PREPARING" -> {"ON_THE_WAY", "CANCELLED"}
          [] s = "ON_THE_WAY" -> {"DELIVERED", "CANCELLED"}
          [] s = "DELIVERED" -> {}
          [] s = "CANCELLED" -> {}]

DELIVERY_STATUS_TRANSITIONS ==
    [s \in DeliveryStatus |->
        CASE s = "ASSIGNED" -> {"PICKED_UP"}
          [] s = "PICKED_UP" -> {"IN_TRANSIT"}
          [] s = "IN_TRANSIT" -> {"DELIVERED"}
          [] s = "DELIVERED" -> {}]

ActiveDeliveryStatus == {"ASSIGNED", "PICKED_UP", "IN_TRANSIT"}

TaxPercent == 10
DeliveryFee == 5000
EarthRadiusKm == 6371

---------------------------------------------------------------------------
(* Helpers *)

\* what `last` records of a call: the operation and "ok" or the error thrown
Outcome(op, result) == [op |-> op, result |-> result]

RECURSIVE SumSeq(_)
SumSeq(s) == IF s = <<>> THEN 0 ELSE Head(s) + SumSeq(Tail(s))

\* the first index of s at which f holds, 0 if none
FirstIndex(s, P(_)) ==
    IF \E i \in DOMAIN s : P(s[i])
    THEN CHOOSE i \in DOMAIN s : P(s[i]) /\ \A j \in 1..(i - 1) : ~P(s[j])
    ELSE 0

\* statusLog after the order table became `newOrders`
Logged(newOrders) ==
    [i \in DOMAIN newOrders |->
        (IF i \in DOMAIN statusLog THEN statusLog[i] ELSE {}) \cup {newOrders[i].status}]

\* prisma.order.findUnique({ include: { delivery: true } }): ids of the order's deliveries
DeliveriesOfOrder(o) == {k \in DOMAIN deliveries : deliveries[k].orderId = o}

\* prisma.delivery.findFirst({ where: { driverId, status in active } })
ActiveDeliveriesOf(d) ==
    {k \in DOMAIN deliveries :
        deliveries[k].driverId = d /\ deliveries[k].status \in ActiveDeliveryStatus}

---------------------------------------------------------------------------
(* OrderService.createOrder *)

\* the item checks without the availability check
ExplicitItemErrorNoAvailability(item, restaurantId) ==
    IF item.menuItemId \notin DOMAIN menuItems THEN "NotFound"
    ELSE IF MenuCategories[menuItems[item.menuItemId].categoryId].restaurantId # restaurantId THEN "BadRequest"
    ELSE ""

\* the error thrown for one explicit item, "" if none
ExplicitItemError(item, restaurantId) ==
    IF item.menuItemId \notin DOMAIN menuItems THEN "NotFound"
    ELSE IF ~menuItems[item.menuItemId].isAvailable THEN "BadRequest"
    ELSE IF MenuCategories[menuItems[item.menuItemId].categoryId].restaurantId # restaurantId THEN "BadRequest"
    ELSE ""

\* the error thrown for one cart item, "" if none
CartItemError(item, restaurantId) ==
    IF MenuCategories[menuItems[item.menuItemId].categoryId].restaurantId # restaurantId THEN "BadRequest"
    ELSE IF ~menuItems[item.menuItemId].isAvailable THEN "BadRequest"
    ELSE ""

\* an OrderItem row: the unit price is the menu price now, the line total price * quantity
OrderItemOf(item) ==
    [menuItemId |-> item.menuItemId,
     quantity |-> item.quantity,
     unitPrice |-> menuItems[item.menuItemId].price,
     totalPrice |-> menuItems[item.menuItemId].price * item.quantity]

\* totals that leave the delivery fee out of the amount charged
TotalsWithoutFee(orderItems) ==
    LET subtotal == SumSeq([i \in DOMAIN orderItems |-> orderItems[i].totalPrice])
        tax == (subtotal * TaxPercent) \div 100
    IN  [subtotal |-> subtotal,
         tax |-> tax,
         deliveryFee |-> DeliveryFee,
         totalAmount |-> subtotal + tax]

\* subtotal, tax, deliveryFee and totalAmount of a list of OrderItem rows
Totals(orderItems) ==
    LET subtotal == SumSeq([i \in DOMAIN orderItems |-> orderItems[i].totalPrice])
        tax == (subtotal * TaxPercent) \div 100
    IN  [subtotal |-> subtotal,
         tax |-> tax,
         deliveryFee |-> DeliveryFee,
         totalAmount |-> subtotal + tax + DeliveryFee]

\* generateOrderNumber: a value that differs for every order created
GenerateOrderNumber(n) == <<"ORD", n>>

\* The result of createOrder(userId, data) in the current state:
\* error "" and the new row, or the error thrown.
CreateOrderResult(userId, data) ==
    LET usesCart == Len(data.items) = 0
        source == IF usesCart THEN carts[userId] ELSE data.items
        bad == IF usesCart
               THEN FirstIndex(source, LAMBDA it : CartItemError(it, data.restaurantId) # "")
               ELSE FirstIndex(source, LAMBDA it : ExplicitItemError(it, data.restaurantId) # "")
        error ==
            IF data.restaurantId \notin Restaurants THEN "NotFound"
            ELSE IF usesCart /\ Len(source) = 0 THEN "BadRequest"
            ELSE IF bad = 0 THEN ""
            ELSE IF usesCart THEN CartItemError(source[bad], data.restaurantId)
            ELSE ExplicitItemError(source[bad], data.restaurantId)
        orderItems == [i \in DOMAIN source |-> OrderItemOf(source[i])]
        totals == Totals(orderItems)
    IN  IF error # ""
        THEN [error |-> error, usesCart |-> usesCart]
        ELSE [error |-> "",
              usesCart |-> usesCart,
              order |-> [orderNumber |-> GenerateOrderNumber(Len(orders) + 1),
                         userId |-> userId,
                         restaurantId |-> data.restaurantId,
                         subtotal |-> totals.subtotal,
                         tax |-> totals.tax,
                         deliveryFee |-> totals.deliveryFee,
                         totalAmount |-> totals.totalAmount,
                         status |-> "PENDING",
                         items |-> orderItems]]

\* a transaction that empties the cart whatever the source of the items
CartsAlwaysCleared(userId, res) ==
    [carts EXCEPT ![userId] = <<>>]

\* the database after createOrder's transaction committed
CartsAfterCreate(userId, res) ==
    IF res.usesCart THEN [carts EXCEPT ![userId] = <<>>] ELSE carts

CreateOrder(userId, data) ==
    LET res == CreateOrderResult(userId, data)
    IN  /\ IF res.error # ""
           THEN /\ last' = Outcome("createOrder", res.error)
                /\ UNCHANGED <<orders, statusLog, carts>>
           ELSE /\ orders' = Append(orders, res.order)
                /\ statusLog' = Logged(orders')
                /\ carts' = CartsAfterCreate(userId, res)
                /\ last' = Outcome("createOrder", "ok")
        /\ UNCHANGED <<deliveries, drivers, menuItems, clientMap, sync, queueVars, calls, auth>>

---------------------------------------------------------------------------
(* OrderService.addToCart, clearCart *)

AddToCart(userId, menuItemId, quantity) ==
    /\ IF menuItemId \notin DOMAIN menuItems
       THEN /\ last' = Outcome("addToCart", "NotFound")
            /\ UNCHANGED carts
       ELSE IF ~menuItems[menuItemId].isAvailable
       THEN /\ last' = Outcome("addToCart", "BadRequest")
            /\ UNCHANGED carts
       ELSE LET cart == carts[userId]
                at == FirstIndex(cart, LAMBDA it : it.menuItemId = menuItemId)
            IN  /\ carts' = [carts EXCEPT ![userId] =
                        IF at # 0
                        THEN [cart EXCEPT ![at].quantity = cart[at].quantity + quantity]
                        ELSE Append(cart, [menuItemId |-> menuItemId, quantity |-> quantity])]
                /\ last' = Outcome("addToCart", "ok")
    /\ UNCHANGED <<orders, statusLog, deliveries, drivers, menuItems, clientMap, sync, queueVars, calls, auth>>

ClearCart(userId) ==
    /\ carts' = [carts EXCEPT ![userId] = <<>>]
    /\ last' = Outcome("clearCart", "ok")
    /\ UNCHANGED <<orders, statusLog, deliveries, drivers, menuItems, clientMap, sync, queueVars, calls, auth>>

---------------------------------------------------------------------------
(* OrderService.updateCartItem, removeFromCart.  A CartItem is named by its  *)
(* place in the cart at the time of the call; 0 names no item of the cart.   *)

\* the list without its element at place i
RemoveAt(list, i) ==
    [j \in 1..(Len(list) - 1) |-> IF j < i THEN list[j] ELSE list[j + 1]]

\* an update that stores whatever quantity it is given
CartAfterUpdateStored(cart, itemId, data) ==
    IF "quantity" \in DOMAIN data
    THEN [cart EXCEPT ![itemId].quantity = data.quantity]
    ELSE cart

\* the cart after updateCartItem found the item: a quantity of 0 or less deletes
\* the row, any other data is written to it
CartAfterUpdate(cart, itemId, data) ==
    IF "quantity" \in DOMAIN data /\ data.quantity <= 0
    THEN RemoveAt(cart, itemId)
    ELSE IF "quantity" \in DOMAIN data
    THEN [cart EXCEPT ![itemId].quantity = data.quantity]
    ELSE cart

UpdateCartItem(userId, itemId, data) ==
    /\ IF itemId \notin DOMAIN carts[userId]
       THEN /\ last' = Outcome("updateCartItem", "NotFound")
            /\ UNCHANGED carts
       ELSE /\ carts' = [carts EXCEPT ![userId] = CartAfterUpdate(carts[userId], itemId, data)]
            /\ last' = Outcome("updateCartItem", "ok")
    /\ UNCHANGED <<orders, statusLog, deliveries, drivers, menuItems, clientMap, sync, queueVars, calls, auth>>

RemoveFromCart(userId, itemId) ==
    /\ IF itemId \notin DOMAIN carts[userId]
       THEN /\ last' = Outcome("removeFromCart", "NotFound")
            /\ UNCHANGED carts
       ELSE /\ carts' = [carts EXCEPT ![userId] = RemoveAt(carts[userId], itemId)]
            /\ last' = Outcome("removeFromCart", "ok")
    /\ UNCHANGED <<orders, statusLog, deliveries, drivers, menuItems, clientMap, sync, queueVars, calls, auth>>

---------------------------------------------------------------------------
(* MenuService.updateMenuItem *)

\* the error updateMenuItem throws, "" if none
UpdateMenuItemError(id, data) ==
    IF id \notin DOMAIN menuItems THEN "NotFound"
    ELSE IF /\ "categoryId" \in DOMAIN data
            /\ data.categoryId # menuItems[id].categoryId
            /\ data.categoryId \notin DOMAIN MenuCategories
         THEN "NotFound"
    ELSE ""

\* prisma.menuItem.update({ data: { ...data } }): the fields given replace the stored ones
MenuItemAfterUpdate(item, data) ==
    [f \in DOMAIN item |-> IF f \in DOMAIN data THEN data[f] ELSE item[f]]

\* an update that carries a new price into the OrderItem rows of the item
OrdersRepricedByMenuUpdate(id, data) ==
    [o \in DOMAIN orders |->
        [orders[o] EXCEPT !.items =
            [i \in DOMAIN orders[o].items |->
                IF orders[o].items[i].menuItemId = id /\ "price" \in DOMAIN data
                THEN [orders[o].items[i] EXCEPT
                         !.unitPrice = data.price,
                         !.totalPrice = data.price * orders[o].items[i].quantity]
                ELSE orders[o].items[i]]]]

\* the Order and OrderItem rows after updateMenuItem: it writes the MenuItem row only
OrdersAfterMenuUpdate(id, data) == orders

UpdateMenuItem(id, data) ==
    LET error == UpdateMenuItemError(id, data)
    IN  /\ IF error # ""
           THEN /\ last' = Outcome("updateMenuItem", error)
                /\ UNCHANGED <<menuItems, orders>>
           ELSE /\ menuItems' = [menuItems EXCEPT ![id] = MenuItemAfterUpdate(menuItems[id], data)]
                /\ orders' = OrdersAfterMenuUpdate(id, data)
                /\ last' = Outcome("updateMenuItem", "ok")
        /\ UNCHANGED <<statusLog, deliveries, drivers, carts, clientMap, sync, queueVars, calls, auth>>

---------------------------------------------------------------------------
(* OrderService.updateOrderStatus, cancelOrder *)

\* updateOrderStatus that accepts a request for the status the order already has
UpdateOrderStatusErrorSameStateOk(orderId, newStatus) ==
    IF orderId \notin DOMAIN orders THEN "NotFound"
    ELSE IF /\ newStatus \notin STATUS_TRANSITIONS[orders[orderId].status]
            /\ newStatus # orders[orderId].status
         THEN "BadRequest"
    ELSE ""

\* the error updateOrderStatus throws, "" if none
UpdateOrderStatusError(orderId, newStatus) ==
    IF orderId \notin DOMAIN orders THEN "NotFound"
    ELSE IF newStatus \notin STATUS_TRANSITIONS[orders[orderId].status] THEN "BadRequest"
    ELSE ""

\* the message of the error updateOrderStatus throws (`last` keeps only the kind)
UpdateOrderStatusMessage(orderId, newStatus) ==
    IF orderId \notin DOMAIN orders THEN <<"Order not found">>
    ELSE <<"Cannot transition from", orders[orderId].status, "to", newStatus>>

UpdateOrderStatus(orderId, newStatus) ==
    LET error == UpdateOrderStatusError(orderId, newStatus)
    IN  /\ IF error # ""
           THEN /\ last' = Outcome("updateOrderStatus", error)
                /\ UNCHANGED <<orders, statusLog>>
           ELSE /\ orders' = [orders EXCEPT ![orderId].status = newStatus]
                /\ statusLog' = Logged(orders')
                /\ last' = Outcome("updateOrderStatus", "ok")
        /\ UNCHANGED <<deliveries, drivers, carts, menuItems, clientMap, sync, queueVars, calls, auth>>

\* cancelOrder without the ownership check
CancelOrderErrorAnyCustomer(orderId, userId) ==
    IF orderId \notin DOMAIN orders THEN "NotFound"
    ELSE IF orders[orderId].status \notin {"PENDING", "CONFIRMED"} THEN "BadRequest"
    ELSE UpdateOrderStatusError(orderId, "CANCELLED")

\* the error cancelOrder throws, "" if none
CancelOrderError(orderId, userId) ==
    IF orderId \notin DOMAIN orders THEN "NotFound"
    ELSE IF orders[orderId].userId # userId THEN "NotFound"
    ELSE IF orders[orderId].status \notin {"PENDING", "CONFIRMED"} THEN "BadRequest"
    ELSE UpdateOrderStatusError(orderId, "CANCELLED")

CancelOrder(orderId, userId) ==
    LET error == CancelOrderError(orderId, userId)
    IN  /\ IF error # ""
           THEN /\ last' = Outcome("cancelOrder", error)
                /\ UNCHANGED <<orders, statusLog>>
           ELSE /\ orders' = [orders EXCEPT ![orderId].status = "CANCELLED"]
                /\ statusLog' = Logged(orders')
                /\ last' = Outcome("cancelOrder", "ok")
        /\ UNCHANGED <<deliveries, drivers, carts, menuItems, clientMap, sync, queueVars, calls, auth>>

---------------------------------------------------------------------------
(* DeliveryService.assignDriver, updateDeliveryStatus, updateDriverAvailability *)

\* assignDriver without the check that the order has no delivery yet
AssignDriverErrorNoDeliveryCheck(orderId, driverId) ==
    IF orderId \notin DOMAIN orders THEN "NotFound"
    ELSE IF orders[orderId].status # "PREPARING" /\ orders[orderId].status # "CONFIRMED"
         THEN "BadRequest"
    ELSE IF driverId \notin DOMAIN drivers THEN "NotFound"
    ELSE IF ~drivers[driverId].isAvailable THEN "BadRequest"
    ELSE ""

\* assignDriver without the check that the driver is available
AssignDriverErrorNoAvailabilityCheck(orderId, driverId) ==
    IF orderId \notin DOMAIN orders THEN "NotFound"
    ELSE IF orders[orderId].status # "PREPARING" /\ orders[orderId].status # "CONFIRMED"
         THEN "BadRequest"
    ELSE IF DeliveriesOfOrder(orderId) # {} THEN "BadRequest"
    ELSE IF driverId \notin DOMAIN drivers THEN "NotFound"
    ELSE ""

\* the error assignDriver throws, "" if none
AssignDriverError(orderId, driverId) ==
    IF orderId \notin DOMAIN orders THEN "NotFound"
    ELSE IF orders[orderId].status # "PREPARING" /\ orders[orderId].status # "CONFIRMED"
         THEN "BadRequest"
    ELSE IF DeliveriesOfOrder(orderId) # {} THEN "BadRequest"
    ELSE IF driverId \notin DOMAIN drivers THEN "NotFound"
    ELSE IF ~drivers[driverId].isAvailable THEN "BadRequest"
    ELSE ""

\* a transaction that leaves out the write to the driver
DriversAfterAssignUnchanged(driverId) == drivers

\* the driver table after assignDriver's transaction
DriversAfterAssign(driverId) == [drivers EXCEPT ![driverId].isAvailable = FALSE]

\* the order table after assignDriver's transaction
OrdersAfterAssign(orderId) ==
    IF orders[orderId].status = "PREPARING"
    THEN [orders EXCEPT ![orderId].status = "ON_THE_WAY"]
    ELSE orders

\* the Delivery row that assignDriver creates; pickupTime, deliveryTime and the
\* position are not set (a coordinate is a one-element sequence, <<>> for null)
NewDelivery(orderId, driverId) ==
    [orderId |-> orderId, driverId |-> driverId, status |-> "ASSIGNED",
     pickupTime |-> "null", deliveryTime |-> "null",
     currentLat |-> <<>>, currentLng |-> <<>>]

AssignDriver(orderId, driverId) ==
    LET error == AssignDriverError(orderId, driverId)
    IN  /\ IF error # ""
           THEN /\ last' = Outcome("assignDriver", error)
                /\ UNCHANGED <<orders, statusLog, deliveries, drivers>>
           ELSE /\ deliveries' = Append(deliveries, NewDelivery(orderId, driverId))
                /\ orders' = OrdersAfterAssign(orderId)
                /\ statusLog' = Logged(orders')
                /\ drivers' = DriversAfterAssign(driverId)
                /\ last' = Outcome("assignDriver", "ok")
        /\ UNCHANGED <<carts, menuItems, clientMap, sync, queueVars, calls, auth>>

\* updateDeliveryStatus that accepts every status other than the current one
UpdateDeliveryStatusErrorAnyOther(deliveryId, newStatus) ==
    IF deliveryId \notin DOMAIN deliveries THEN "NotFound"
    ELSE IF newStatus = deliveries[deliveryId].status THEN "BadRequest"
    ELSE ""

\* the error updateDeliveryStatus throws, "" if none
UpdateDeliveryStatusError(deliveryId, newStatus) ==
    IF deliveryId \notin DOMAIN deliveries THEN "NotFound"
    ELSE IF newStatus \notin DELIVERY_STATUS_TRANSITIONS[deliveries[deliveryId].status]
         THEN "BadRequest"
    ELSE ""

\* the order table after the delivery's transaction: DELIVERED is written to the parent order
OrdersAfterDelivery(deliveryId, newStatus) ==
    IF newStatus = "DELIVERED"
    THEN [orders EXCEPT ![deliveries[deliveryId].orderId].status = "DELIVERED"]
    ELSE orders

\* a transaction that frees the driver without counting the delivery
DriversAfterDeliveryNotCounted(deliveryId, newStatus) ==
    IF newStatus = "DELIVERED"
    THEN [drivers EXCEPT ![deliveries[deliveryId].driverId].isAvailable = TRUE]
    ELSE drivers

\* updateData: the status, and the timestamp that belongs to it
DeliveryAfterUpdate(delivery, newStatus) ==
    IF newStatus = "PICKED_UP"
    THEN [delivery EXCEPT !.status = newStatus, !.pickupTime = "now"]
    ELSE IF newStatus = "DELIVERED"
    THEN [delivery EXCEPT !.status = newStatus, !.deliveryTime = "now"]
    ELSE [delivery EXCEPT !.status = newStatus]

\* the driver table after the delivery's transaction
DriversAfterDelivery(deliveryId, newStatus) ==
    IF newStatus = "DELIVERED"
    THEN [drivers EXCEPT ![deliveries[deliveryId].driverId].isAvailable = TRUE,
                         ![deliveries[deliveryId].driverId].totalDeliveries = @ + 1]
    ELSE drivers

UpdateDeliveryStatus(deliveryId, newStatus) ==
    LET error == UpdateDeliveryStatusError(deliveryId, newStatus)
    IN  /\ IF error # ""
           THEN /\ last' = Outcome("updateDeliveryStatus", error)
                /\ UNCHANGED <<orders, statusLog, deliveries, drivers>>
           ELSE /\ deliveries' = [deliveries EXCEPT
                        ![deliveryId] = DeliveryAfterUpdate(deliveries[deliveryId], newStatus)]
                /\ orders' = OrdersAfterDelivery(deliveryId, newStatus)
                /\ statusLog' = Logged(orders')
                /\ drivers' = DriversAfterDelivery(deliveryId, newStatus)
                /\ last' = Outcome("updateDeliveryStatus", "ok")
        /\ UNCHANGED <<carts, menuItems, clientMap, sync, queueVars, calls, auth>>

\* updateDriverAvailability without the look for an active delivery
UpdateDriverAvailabilityErrorUnchecked(driverId, isAvailable) ==
    IF driverId \notin DOMAIN drivers THEN "NotFound"
    ELSE ""

\* the error updateDriverAvailability throws, "" if none
UpdateDriverAvailabilityError(driverId, isAvailable) ==
    IF driverId \notin DOMAIN drivers THEN "NotFound"
    ELSE IF ~isAvailable /\ ActiveDeliveriesOf(driverId) # {} THEN "BadRequest"
    ELSE ""

UpdateDriverAvailability(driverId, isAvailable) ==
    LET error == UpdateDriverAvailabilityError(driverId, isAvailable)
    IN  /\ IF error # ""
           THEN /\ last' = Outcome("updateDriverAvailability", error)
                /\ UNCHANGED drivers
           ELSE /\ drivers' = [drivers EXCEPT ![driverId].isAvailable = isAvailable]
                /\ last' = Outcome("updateDriverAvailability", "ok")
        /\ UNCHANGED <<orders, statusLog, deliveries, carts, menuItems, clientMap, sync, queueVars, calls, auth>>

---------------------------------------------------------------------------
(* DeliveryService.updateDriverLocation, POST /deliveries/location and the *)
(* socket event 'delivery:location-update'                                 *)

\* the Delivery rows after updateDriverLocation when delivery k is the one findFirst returned
DeliveriesAfterLocation(k, latitude, longitude) ==
    [deliveries EXCEPT ![k].currentLat = <<latitude>>, ![k].currentLng = <<longitude>>]

\* the Driver rows after updateDriverLocation
DriversAfterLocation(driverId, latitude, longitude) ==
    [drivers EXCEPT ![driverId].currentLat = <<latitude>>,
                    ![driverId].currentLng = <<longitude>>]

\* findFirst has no orderBy: with more than one active delivery the database picks
UpdateDriverLocation(driverId, latitude, longitude) ==
    /\ IF driverId \notin DOMAIN drivers
       THEN /\ last' = Outcome("updateDriverLocation", "NotFound")
            /\ UNCHANGED <<drivers, deliveries>>
       ELSE /\ drivers' = DriversAfterLocation(driverId, latitude, longitude)
            /\ IF ActiveDeliveriesOf(driverId) = {}
               THEN UNCHANGED deliveries
               ELSE \E k \in ActiveDeliveriesOf(driverId) :
                       deliveries' = DeliveriesAfterLocation(k, latitude, longitude)
            /\ last' = Outcome("updateDriverLocation", "ok")
    /\ UNCHANGED <<orders, statusLog, carts, menuItems, clientMap, sync, queueVars, calls, auth>>

\* updateDriverLocationSchema: latitude in [-90, 90], longitude in [-180, 180]
UpdateDriverLocationSchema(latitude, longitude) ==
    /\ latitude >= -90
    /\ latitude <= 90
    /\ longitude >= -180
    /\ longitude <= 180

\* POST /deliveries/location: validate(updateDriverLocationSchema), then the controller
PostLocation(driverId, latitude, longitude) ==
    IF UpdateDriverLocationSchema(latitude, longitude)
    THEN UpdateDriverLocation(driverId, latitude, longitude)
    ELSE /\ last' = Outcome("postLocation", "ValidationError")
         /\ UNCHANGED <<orders, statusLog, deliveries, drivers, carts, menuItems, clientMap,
                        sync, queueVars, calls, auth>>

\* socket.on('delivery:location-update'): the payload goes to the service as it came
OnLocationUpdate(driverId, latitude, longitude) ==
    UpdateDriverLocation(driverId, latitude, longitude)

---------------------------------------------------------------------------
(* The order and delivery lifecycle *)

IdleSync == [c \in SyncCalls |-> [pc |-> "idle"]]

\* the accounts the password calls are made for: one of a user, one of nobody
Emails == {"customer@example.com", "nobody@example.com"}

\* argon2.hash and argon2.verify: a hash is not the password, and verifies only it
Argon2Hash(password) == [argon2 |-> password]

Argon2Verify(hash, password) == hash = Argon2Hash(password)

\* prisma.user.findUnique({ where: { email } }): <<>> when nobody has the address
UserByEmail(email) ==
    IF email = "customer@example.com" THEN <<[id |-> "u1", isActive |-> TRUE]>>
    ELSE <<>>

\* the users and the OTP keys of a seeded system: no refresh token, no key stored
SeedAuth ==
    [password      |-> [u \in {"u1"} |-> Argon2Hash("Customer123!")],
     refreshTokens |-> [u \in {"u1"} |-> 0],
     otpReq        |-> [e \in Emails |-> <<>>],
     otp           |-> [e \in Emails |-> <<>>],
     otpAttempts   |-> [e \in Emails |-> <<>>]]

\* the background queue of a service that has just started: nothing queued, no call
QueueIdle ==
    /\ queue = <<>>
    /\ processing = <<>>
    /\ isProcessing = FALSE
    /\ drains = [c \in DrainCalls |-> [pc |-> "idle"]]
    /\ producers = [p \in ProducerCalls |-> [pc |-> "idle"]]
    /\ attempts = <<>>
    /\ pushCount = 0
    /\ clearing = FALSE
    /\ calls = [k \in Requests |-> [pc |-> "idle"]]
    /\ auth = SeedAuth

\* createOrder requests of the lifecycle specification
LifecycleRequests ==
    {[restaurantId |-> "r1", items |-> <<[menuItemId |-> "m1", quantity |-> 1]>>],
     [restaurantId |-> NoRestaurant, items |-> <<[menuItemId |-> "m1", quantity |-> 1]>>]}

Init ==
    /\ orders = <<>>
    /\ statusLog = <<>>
    /\ deliveries = <<>>
    /\ drivers = [d \in DriverIds |-> [isAvailable |-> TRUE, totalDeliveries |-> 0,
                                       currentLat |-> <<>>, currentLng |-> <<>>]]
    /\ carts = [u \in Users |-> <<>>]
    /\ menuItems = SeedMenu
    /\ clientMap = << >>
    /\ sync = IdleSync
    /\ last = Outcome("none", "ok")
    /\ QueueIdle

Next ==
    \/ \E data \in LifecycleRequests :
          Len(orders) < MaxOrders /\ CreateOrder("u1", data)
    \/ \E o \in 0..Len(orders), s \in OrderStatus : UpdateOrderStatus(o, s)
    \/ \E o \in 0..Len(orders), u \in Users : CancelOrder(o, u)
    \/ \E o \in 0..Len(orders), d \in DriverIds \cup {NoDriver} : AssignDriver(o, d)
    \/ \E k \in 0..Len(deliveries), s \in DeliveryStatus : UpdateDeliveryStatus(k, s)
    \/ \E d \in DriverIds \cup {NoDriver}, b \in BOOLEAN : UpdateDriverAvailability(d, b)

Spec == Init /\ [][Next]_vars

\* The same calls at a desk that dispatches one driver; the contracts of the single
\* calls are checked here against every argument.
NextContract ==
    \/ \E data \in LifecycleRequests :
          Len(orders) < MaxOrders /\ CreateOrder("u1", data)
    \/ \E o \in 0..Len(orders), s \in OrderStatus : UpdateOrderStatus(o, s)
    \/ \E o \in 0..Len(orders), u \in Users : CancelOrder(o, u)
    \/ \E o \in 0..Len(orders), d \in {"d1", NoDriver} : AssignDriver(o, d)
    \/ \E k \in 0..Len(deliveries), s \in DeliveryStatus : UpdateDeliveryStatus(k, s)
    \/ \E d \in {"d1", NoDriver}, b \in BOOLEAN : UpdateDriverAvailability(d, b)

SpecContract == Init /\ [][NextContract]_vars

---------------------------------------------------------------------------
(* QueueService.syncOrders and SyncController.syncOrders *)

\* `order:client:${userId}:${clientId}`
DedupKey(userId, clientId) == <<"order:client", userId, clientId>>

\* redis.get without the stored mappings: every lookup misses
RedisGetMiss(key) == <<>>

\* redis.get(key): the stored value as a one-element sequence, <<>> for null
RedisGet(key) == IF key \in DOMAIN clientMap THEN <<clientMap[key]>> ELSE <<>>

\* redis.setex(key, 86400, value)
RedisSetex(key, value) ==
    [k \in DOMAIN clientMap \cup {key} |-> IF k = key THEN value ELSE clientMap[k]]

\* new Date(createdAt).getTime(): milliseconds since 2024-05-01T10:00:00Z
GetTime(createdAt) ==
    CASE createdAt = "2024-05-01T10:00:00Z" -> 0
      [] createdAt = "2024-05-01T10:00:01Z" -> 1000

\* insert item x into the ascending list s behind every item that does not come later
RECURSIVE InsertByCreatedAt(_, _)
InsertByCreatedAt(s, x) ==
    IF s = <<>> THEN <<x>>
    ELSE IF GetTime(x.createdAt) - GetTime(Head(s).createdAt) < 0 THEN <<x>> \o s
    ELSE <<Head(s)>> \o InsertByCreatedAt(Tail(s), x)

\* the batch left in the order of the request
UnsortedBatch(batch) == batch

\* [...orders].sort((a, b) => time(a.createdAt) - time(b.createdAt)): ascending and stable
RECURSIVE SortByCreatedAt(_)
SortByCreatedAt(batch) ==
    IF batch = <<>> THEN <<>>
    ELSE InsertByCreatedAt(SortByCreatedAt(SubSeq(batch, 1, Len(batch) - 1)),
                           batch[Len(batch)])

\* the createOrder argument built from one batch item
OrderDataOf(item) == [restaurantId |-> item.restaurantId, items |-> item.items]

\* a failure that ends the loop: the remaining items are skipped
AbortOnFailure(call, error) ==
    [call EXCEPT !.pc = "get", !.i = Len(call.sorted) + 1]

\* the catch block: the failure becomes this item's result and the loop goes on
RecordFailure(call, error) ==
    [call EXCEPT
        !.pc = "get",
        !.i = @ + 1,
        !.results = Append(@, [clientId |-> call.sorted[call.i].clientId,
                               success |-> FALSE,
                               error |-> error])]

\* results.push({ clientId, success: true, orderId, orderNumber })
RecordSuccess(call, value) ==
    [call EXCEPT
        !.pc = "get",
        !.i = @ + 1,
        !.results = Append(@, [clientId |-> call.sorted[call.i].clientId,
                               success |-> TRUE,
                               orderId |-> value.orderId,
                               orderNumber |-> value.orderNumber])]

\* history: what happened to the item the call is at
Traced(call, ev) ==
    [call EXCEPT !.trace = Append(@, [ev |-> ev, at |-> call.i,
                                      createdAt |-> call.sorted[call.i].createdAt])]

\* syncOrders(userId, orders) is called: the batch is sorted
SyncOrders(c, userId, batch) ==
    /\ sync[c].pc = "idle"
    /\ sync' = [sync EXCEPT ![c] =
            [pc |-> "get",
             userId |-> userId,
             orders |-> batch,
             sorted |-> SortByCreatedAt(batch),
             i |-> 1,
             results |-> <<>>,
             pending |-> <<>>,
             created |-> {},
             trace |-> <<>>,
             after |-> {c2 \in SyncCalls : sync[c2].pc = "done"}]]
    /\ UNCHANGED <<orders, statusLog, deliveries, drivers, carts, menuItems, clientMap, last, queueVars, calls, auth>>

\* the dedup lookup of the next item: a hit is answered from the stored mapping,
\* a miss goes on to createOrder
SyncGet(c) ==
    LET call == sync[c]
        existing == RedisGet(DedupKey(call.userId, call.sorted[call.i].clientId))
    IN  /\ call.pc = "get"
        /\ call.i <= Len(call.sorted)
        /\ sync' = [sync EXCEPT ![c] =
                IF existing # <<>>
                THEN RecordSuccess(Traced(call, "hit"), existing[1])
                ELSE [Traced(call, "createStart") EXCEPT !.pc = "create"]]
        /\ UNCHANGED <<orders, statusLog, deliveries, drivers, carts, menuItems, clientMap, last, queueVars, calls, auth>>

\* orderService.createOrder returns or throws
SyncCreate(c) ==
    LET call == sync[c]
        res == CreateOrderResult(call.userId, OrderDataOf(call.sorted[call.i]))
    IN  /\ call.pc = "create"
        /\ IF res.error # ""
           THEN /\ sync' = [sync EXCEPT ![c] = RecordFailure(Traced(call, "createEnd"), res.error)]
                /\ UNCHANGED <<orders, statusLog, carts>>
           ELSE /\ orders' = Append(orders, res.order)
                /\ statusLog' = Logged(orders')
                /\ carts' = CartsAfterCreate(call.userId, res)
                /\ sync' = [sync EXCEPT ![c] =
                        [Traced(call, "createEnd") EXCEPT
                            !.pc = "setex",
                            !.pending = <<[orderId |-> Len(orders) + 1,
                                           orderNumber |-> res.order.orderNumber]>>,
                            !.created = @ \cup {[orderId |-> Len(orders) + 1,
                                                 clientId |-> call.sorted[call.i].clientId,
                                                 at |-> call.i]}]]
        /\ UNCHANGED <<deliveries, drivers, menuItems, clientMap, last, queueVars, calls, auth>>

\* the mapping is stored and the item's result recorded
SyncSetex(c) ==
    LET call == sync[c]
    IN  /\ call.pc = "setex"
        /\ clientMap' = RedisSetex(DedupKey(call.userId, call.sorted[call.i].clientId),
                                   call.pending[1])
        /\ sync' = [sync EXCEPT ![c] = [RecordSuccess(call, call.pending[1]) EXCEPT !.pending = <<>>]]
        /\ UNCHANGED <<orders, statusLog, deliveries, drivers, carts, menuItems, last, queueVars, calls, auth>>

\* the response body of POST /orders/sync
SyncResponse(batch, results) ==
    [total |-> Len(batch),
     successful |-> Cardinality({k \in DOMAIN results : results[k].success}),
     failed |-> Cardinality({k \in DOMAIN results : ~results[k].success}),
     results |-> results]

\* the loop is over: syncOrders returns and the controller answers
SyncReturn(c) ==
    LET call == sync[c]
    IN  /\ call.pc = "get"
        /\ call.i > Len(call.sorted)
        /\ sync' = [sync EXCEPT ![c] =
                [pc |-> "done",
                 userId |-> call.userId,
                 orders |-> call.orders,
                 sorted |-> call.sorted,
                 response |-> SyncResponse(call.orders, call.results),
                 created |-> call.created,
                 trace |-> call.trace,
                 after |-> call.after]]
        /\ UNCHANGED <<orders, statusLog, deliveries, drivers, carts, menuItems, clientMap, last, queueVars, calls, auth>>

---------------------------------------------------------------------------
(* Offline sync: a batch is submitted, and submitted again after the answer *)

\* what one batch item asks for: a valid order, an item that is not available,
\* and an empty item list (the schema sets no minimum length)
SyncRequestKinds ==
    {[restaurantId |-> "r1", items |-> <<[menuItemId |-> "m1", quantity |-> 2]>>],
     [restaurantId |-> "r1", items |-> <<[menuItemId |-> "m4", quantity |-> 1]>>],
     [restaurantId |-> "r1", items |-> <<>>]}

BatchItems ==
    {[clientId |-> cid, createdAt |-> t, restaurantId |-> k.restaurantId, items |-> k.items] :
        cid \in ClientIds, t \in CreatedAts, k \in SyncRequestKinds}

Batches == UNION {[1..n -> BatchItems] : n \in 0..MaxBatch}

InitSync ==
    /\ orders = <<>>
    /\ statusLog = <<>>
    /\ deliveries = <<>>
    /\ drivers = [d \in DriverIds |-> [isAvailable |-> TRUE, totalDeliveries |-> 0,
                                       currentLat |-> <<>>, currentLng |-> <<>>]]
    /\ carts = [u \in Users |->
                    IF u = "u1" THEN <<[menuItemId |-> "m2", quantity |-> 1]>> ELSE <<>>]
    /\ menuItems = SeedMenu
    /\ clientMap = << >>
    /\ sync = IdleSync
    /\ last = Outcome("none", "ok")
    /\ QueueIdle

\* no syncOrders call is running
NoSyncRunning == \A c \in SyncCalls : sync[c].pc \in {"idle", "done"}

\* the batches a call may submit: any batch first, then the batch already answered
Submittable ==
    IF \E c \in SyncCalls : sync[c].pc = "done"
    THEN {sync[c].orders : c \in {c2 \in SyncCalls : sync[c2].pc = "done"}}
    ELSE Batches

\* u1 submits first; the batch is then submitted again by u1 or by u2
SyncUsers == IF \E c \in SyncCalls : sync[c].pc = "done" THEN Users ELSE {"u1"}

NextSync ==
    \/ /\ NoSyncRunning
       /\ \E c \in SyncCalls :
             /\ \A c2 \in SyncCalls : c2 < c => sync[c2].pc = "done"
             /\ \E u \in SyncUsers, batch \in Submittable : SyncOrders(c, u, batch)
    \/ \E c \in SyncCalls : SyncGet(c)
    \/ \E c \in SyncCalls : SyncCreate(c)
    \/ \E c \in SyncCalls : SyncSetex(c)
    \/ \E c \in SyncCalls : SyncReturn(c)

SpecSync == InitSync /\ [][NextSync]_vars

---------------------------------------------------------------------------
(* Pricing: a customer fills the cart and places one order, from the cart or *)
(* from an explicit item list                                                *)

\* one line of a request body; unitPrice is a field the client adds on its own
RequestLines ==
    {[menuItemId |-> m, quantity |-> q, unitPrice |-> 1] :
        m \in MenuIds \cup {NoMenuItem}, q \in 1..MaxQuantity}

\* request bodies of POST /orders; totalAmount is a field the client adds on its own
OrderRequests ==
    {[restaurantId |-> r, items |-> items, totalAmount |-> 1] :
        r \in {"r1", NoRestaurant},
        items \in UNION {[1..n -> RequestLines] : n \in 0..MaxLines}}

\* the total quantity in a user's cart
CartQuantity(userId) ==
    SumSeq([i \in DOMAIN carts[userId] |-> carts[userId][i].quantity])

NextOrder ==
    \/ \E m \in MenuIds \cup {NoMenuItem}, q \in 1..MaxQuantity :
          /\ CartQuantity("u1") + q <= MaxCartQuantity
          /\ AddToCart("u1", m, q)
    \/ ClearCart("u1")
    \/ \E data \in OrderRequests : orders = <<>> /\ CreateOrder("u1", data)

SpecOrder == Init /\ [][NextOrder]_vars

---------------------------------------------------------------------------
(* QueueService.enqueueOrders and processQueue *)

\* a list with the item at its head instead of its tail
Lpush(list, item) == <<item>> \o list

\* redis.rpush: the item is appended at the tail of the list
Rpush(list, item) == Append(list, item)

\* JSON.stringify({ ...order, userId }); n is history: the position in the order of
\* all pushes
QueueItemOf(order, userId, n) ==
    [clientId |-> order.clientId,
     userId |-> userId,
     restaurantId |-> order.restaurantId,
     items |-> order.items,
     n |-> n]

\* the number of items pushed so far
Pushed == pushCount

\* a string in the list that is not JSON, left there by another producer
RawItem(n) == [raw |-> TRUE, n |-> n]

\* whether JSON.parse(item) returns
Parses(item) == "raw" \notin DOMAIN item

\* enqueueOrders(userId, orders) is called
EnqueueOrders(p, userId, batch) ==
    /\ producers[p].pc = "idle"
    /\ producers' = [producers EXCEPT ![p] =
            [pc |-> "rpush", userId |-> userId, orders |-> batch, i |-> 1]]
    /\ UNCHANGED <<queue, processing, isProcessing, drains, attempts, pushCount, clearing>>
    /\ UNCHANGED <<orders, statusLog, deliveries, drivers, carts, menuItems, clientMap, sync, last, calls, auth>>

\* one redis.rpush of enqueueOrders; after the last one the call returns
EnqueueRpush(p) ==
    LET call == producers[p]
    IN  /\ call.pc = "rpush"
        /\ queue' = Rpush(queue, QueueItemOf(call.orders[call.i], call.userId, Pushed + 1))
        /\ pushCount' = pushCount + 1
        /\ producers' = [producers EXCEPT ![p] =
                IF call.i = Len(call.orders)
                THEN [pc |-> "idle"]
                ELSE [call EXCEPT !.i = @ + 1]]
        /\ UNCHANGED <<processing, isProcessing, drains, attempts, clearing>>
        /\ UNCHANGED <<orders, statusLog, deliveries, drivers, carts, menuItems, clientMap, sync, last, calls, auth>>

\* processQueue that enters the loop without looking at the flag
ProcessQueueUnguarded(c) ==
    /\ drains[c].pc = "idle"
    /\ isProcessing' = TRUE
    /\ drains' = [drains EXCEPT ![c] =
            [pc |-> "lpop", item |-> <<>>, results |-> <<>>, popped |-> 0]]
    /\ UNCHANGED <<queue, processing, producers, attempts, pushCount, clearing>>
    /\ UNCHANGED <<orders, statusLog, deliveries, drivers, carts, menuItems, clientMap, sync, last, calls, auth>>

\* processQueue() is called: it returns [] at once when a drain is running,
\* otherwise it sets the flag and enters the loop
ProcessQueue(c) ==
    /\ drains[c].pc = "idle"
    /\ IF isProcessing
       THEN /\ drains' = [drains EXCEPT ![c] =
                    [pc |-> "done", results |-> <<>>, thrown |-> FALSE, popped |-> 0]]
            /\ UNCHANGED isProcessing
       ELSE /\ isProcessing' = TRUE
            /\ drains' = [drains EXCEPT ![c] =
                    [pc |-> "lpop", item |-> <<>>, results |-> <<>>, popped |-> 0]]
    /\ UNCHANGED <<queue, processing, producers, attempts, pushCount, clearing>>
    /\ UNCHANGED <<orders, statusLog, deliveries, drivers, carts, menuItems, clientMap, sync, last, calls, auth>>

\* redis.lpop: the head of the list is taken; on an empty list the loop ends,
\* the flag is reset and the results are returned
DrainLpop(c) ==
    LET call == drains[c]
    IN  /\ call.pc = "lpop"
        /\ IF queue = <<>>
           THEN /\ isProcessing' = FALSE
                /\ drains' = [drains EXCEPT ![c] =
                        [pc |-> "done", results |-> call.results, thrown |-> FALSE,
                         popped |-> call.popped]]
                /\ UNCHANGED queue
           ELSE /\ queue' = Tail(queue)
                /\ drains' = [drains EXCEPT ![c] =
                        [call EXCEPT !.pc = "set", !.item = <<Head(queue)>>, !.popped = @ + 1]]
                /\ UNCHANGED isProcessing
        /\ UNCHANGED <<processing, producers, attempts, pushCount, clearing>>
        /\ UNCHANGED <<orders, statusLog, deliveries, drivers, carts, menuItems, clientMap, sync, last, calls, auth>>

\* redis.set(PROCESSING_KEY, item)
DrainSet(c) ==
    LET call == drains[c]
    IN  /\ call.pc = "set"
        /\ processing' = call.item
        /\ drains' = [drains EXCEPT ![c].pc = "create"]
        /\ UNCHANGED <<queue, isProcessing, producers, attempts, pushCount, clearing>>
        /\ UNCHANGED <<orders, statusLog, deliveries, drivers, carts, menuItems, clientMap, sync, last, calls, auth>>

\* the result pushed for an item: n is history, the item it belongs to
QueueResultOf(item, res, orderId) ==
    IF res.error # ""
    THEN [clientId |-> item.clientId, success |-> FALSE, error |-> res.error, n |-> item.n]
    ELSE [clientId |-> item.clientId, success |-> TRUE, orderId |-> orderId,
          orderNumber |-> res.order.orderNumber, n |-> item.n]

\* orderService.createOrder for the popped item returns or throws; its result is pushed
DrainCreate(c) ==
    LET call == drains[c]
        item == call.item[1]
        res == CreateOrderResult(item.userId, OrderDataOf(item))
    IN  /\ call.pc = "create"
        /\ Parses(item)
        /\ attempts' = Append(attempts, item.n)
        /\ IF res.error # ""
           THEN UNCHANGED <<orders, statusLog, carts>>
           ELSE /\ orders' = Append(orders, res.order)
                /\ statusLog' = Logged(orders')
                /\ carts' = CartsAfterCreate(item.userId, res)
        /\ drains' = [drains EXCEPT ![c] =
                [call EXCEPT !.pc = "del",
                             !.results = Append(@, QueueResultOf(item, res, Len(orders) + 1))]]
        /\ UNCHANGED <<queue, processing, isProcessing, producers, pushCount, clearing>>
        /\ UNCHANGED <<deliveries, drivers, menuItems, clientMap, sync, last, calls, auth>>

\* finally: redis.del(PROCESSING_KEY), then the loop goes on
DrainDel(c) ==
    LET call == drains[c]
    IN  /\ call.pc = "del"
        /\ processing' = <<>>
        /\ drains' = [drains EXCEPT ![c] = [call EXCEPT !.pc = "lpop", !.item = <<>>]]
        /\ UNCHANGED <<queue, isProcessing, producers, attempts, pushCount, clearing>>
        /\ UNCHANGED <<orders, statusLog, deliveries, drivers, carts, menuItems, clientMap, sync, last, calls, auth>>

\* JSON.parse throws for the popped item, in the try block and again in the catch
\* block, so the error leaves the loop by way of the finally block
DrainParseError(c) ==
    LET call == drains[c]
    IN  /\ call.pc = "create"
        /\ ~Parses(call.item[1])
        /\ drains' = [drains EXCEPT ![c].pc = "delThrow"]
        /\ UNCHANGED <<queue, processing, isProcessing, producers, attempts, pushCount, clearing>>
        /\ UNCHANGED <<orders, statusLog, deliveries, drivers, carts, menuItems, clientMap, sync, last, calls, auth>>

\* an exit from the loop that forgets the finally block
DrainThrowKeepingMarker(c) ==
    LET call == drains[c]
    IN  /\ call.pc = "delThrow"
        /\ isProcessing' = FALSE
        /\ drains' = [drains EXCEPT ![c] =
                [pc |-> "done", results |-> call.results, thrown |-> TRUE,
                 popped |-> call.popped]]
        /\ UNCHANGED <<queue, processing, producers, attempts, pushCount, clearing>>
        /\ UNCHANGED <<orders, statusLog, deliveries, drivers, carts, menuItems, clientMap, sync, last, calls, auth>>

\* finally: redis.del(PROCESSING_KEY) with the error pending; then the outer finally
\* resets the flag and processQueue throws, its results are lost
DrainDelThrow(c) ==
    LET call == drains[c]
    IN  /\ call.pc = "delThrow"
        /\ processing' = <<>>
        /\ isProcessing' = FALSE
        /\ drains' = [drains EXCEPT ![c] =
                [pc |-> "done", results |-> call.results, thrown |-> TRUE,
                 popped |-> call.popped]]
        /\ UNCHANGED <<queue, producers, attempts, pushCount, clearing>>
        /\ UNCHANGED <<orders, statusLog, deliveries, drivers, carts, menuItems, clientMap, sync, last, calls, auth>>

\* another producer pushes a string that is not JSON onto the list
ExternalRpush ==
    /\ queue' = Rpush(queue, RawItem(Pushed + 1))
    /\ pushCount' = pushCount + 1
    /\ UNCHANGED <<processing, isProcessing, drains, producers, attempts, clearing>>
    /\ UNCHANGED <<orders, statusLog, deliveries, drivers, carts, menuItems, clientMap, sync, last, calls, auth>>

\* clearQueue: redis.del(QUEUE_KEY)
ClearQueueDelList ==
    /\ ~clearing
    /\ queue' = <<>>
    /\ clearing' = TRUE
    /\ UNCHANGED <<processing, isProcessing, drains, producers, attempts, pushCount>>
    /\ UNCHANGED <<orders, statusLog, deliveries, drivers, carts, menuItems, clientMap, sync, last, calls, auth>>

\* clearQueue: redis.del(PROCESSING_KEY), then it returns
ClearQueueDelMarker ==
    /\ clearing
    /\ processing' = <<>>
    /\ clearing' = FALSE
    /\ UNCHANGED <<queue, isProcessing, drains, producers, attempts, pushCount>>
    /\ UNCHANGED <<orders, statusLog, deliveries, drivers, carts, menuItems, clientMap, sync, last, calls, auth>>

---------------------------------------------------------------------------
(* Background queue: producers enqueue while drains are requested *)

\* the orders a producer hands to enqueueOrders: two valid orders, one with an item
\* that is not available, one with an empty item list
QueuedOrders ==
    {[clientId |-> "c1", restaurantId |-> "r1", items |-> <<[menuItemId |-> "m1", quantity |-> 2]>>],
     [clientId |-> "c2", restaurantId |-> "r1", items |-> <<[menuItemId |-> "m2", quantity |-> 1]>>],
     [clientId |-> "c1", restaurantId |-> "r1", items |-> <<[menuItemId |-> "m4", quantity |-> 1]>>],
     [clientId |-> "c2", restaurantId |-> "r1", items |-> <<>>]}

QueueBatches == UNION {[1..n -> QueuedOrders] : n \in 1..MaxEnqueue}

\* the items that running enqueueOrders calls have still to push
ToPush ==
    LET left(p) == IF producers[p].pc = "rpush"
                   THEN Len(producers[p].orders) - producers[p].i + 1
                   ELSE 0
    IN  left(1) + left(2)

NextQueue ==
    \/ \E p \in ProducerCalls, batch \in QueueBatches :
          /\ Pushed + ToPush + Len(batch) <= MaxQueued
          /\ EnqueueOrders(p, "u1", batch)
    \/ \E p \in ProducerCalls : EnqueueRpush(p)
    \/ \E c \in DrainCalls : ProcessQueue(c)
    \/ \E c \in DrainCalls : DrainLpop(c)
    \/ \E c \in DrainCalls : DrainSet(c)
    \/ \E c \in DrainCalls : DrainCreate(c)
    \/ \E c \in DrainCalls : DrainDel(c)
    \/ \E c \in DrainCalls : DrainParseError(c)
    \/ \E c \in DrainCalls : DrainDelThrow(c)
    \/ Pushed + ToPush + 1 <= MaxQueued /\ ExternalRpush
    \/ queue # <<>> /\ ClearQueueDelList
    \/ ClearQueueDelMarker

SpecQueue == InitSync /\ [][NextQueue]_vars

---------------------------------------------------------------------------
(* Offline sync: a retry of the batch arrives while the first call is running *)

\* the items of a retried batch: a valid order and one that is not available
RetryItems ==
    {[clientId |-> cid, createdAt |-> "2024-05-01T10:00:00Z",
      restaurantId |-> "r1", items |-> <<[menuItemId |-> m, quantity |-> 1]>>] :
        cid \in ClientIds, m \in {"m1", "m4"}}

RetryBatches == UNION {[1..n -> RetryItems] : n \in 1..MaxRetryBatch}

\* POST /orders/sync is served as the requests arrive: nothing makes a call wait
\* for the call before it
NextSyncRetry ==
    \/ \E c \in SyncCalls, batch \in RetryBatches :
          /\ \A c2 \in SyncCalls : sync[c2].pc # "idle" => sync[c2].orders = batch
          /\ SyncOrders(c, "u1", batch)
    \/ \E c \in SyncCalls : SyncGet(c)
    \/ \E c \in SyncCalls : SyncCreate(c)
    \/ \E c \in SyncCalls : SyncSetex(c)
    \/ \E c \in SyncCalls : SyncReturn(c)

SpecSyncRetry == InitSync /\ [][NextSyncRetry]_vars

---------------------------------------------------------------------------
(* Offline sync while the key-value store fails: a command of the store may be *)
(* rejected, and the customer then resubmits the items reported as failed      *)

\* the message of the error a rejected store command throws
StoreError == "key-value store error"

\* redis.get rejects: the error is thrown inside the try block of the item, so the
\* catch block records it as the item's result and createOrder is not called
SyncGetFails(c) ==
    LET call == sync[c]
    IN  /\ call.pc = "get"
        /\ call.i <= Len(call.sorted)
        /\ sync' = [sync EXCEPT ![c] = RecordFailure(Traced(call, "getFailed"), StoreError)]
        /\ UNCHANGED <<orders, statusLog, deliveries, drivers, carts, menuItems, clientMap, last, queueVars, calls, auth>>

\* redis.setex rejects after createOrder returned: the catch block records the
\* error as the item's result; the Order stays and no mapping is stored
SyncSetexFails(c) ==
    LET call == sync[c]
    IN  /\ call.pc = "setex"
        /\ sync' = [sync EXCEPT ![c] =
                [RecordFailure(Traced(call, "setexFailed"), StoreError) EXCEPT
                    !.pending = <<>>]]
        /\ UNCHANGED <<orders, statusLog, deliveries, drivers, carts, menuItems, clientMap, last, queueVars, calls, auth>>

\* the items of an answered batch whose result says success: false
RECURSIVE FailedItems(_, _)
FailedItems(sorted, results) ==
    IF sorted = <<>> THEN <<>>
    ELSE IF Head(results).success
         THEN FailedItems(Tail(sorted), Tail(results))
         ELSE <<Head(sorted)>> \o FailedItems(Tail(sorted), Tail(results))

\* the first call submits any batch; the second resubmits what the first reported
\* as failed, once it has the answer
NextSyncOutage ==
    \/ \E batch \in RetryBatches :
          /\ sync[2].pc = "idle"
          /\ SyncOrders(1, "u1", batch)
    \/ /\ sync[1].pc = "done"
       /\ FailedItems(sync[1].sorted, sync[1].response.results) # <<>>
       /\ SyncOrders(2, "u1", FailedItems(sync[1].sorted, sync[1].response.results))
    \/ \E c \in SyncCalls : SyncGet(c)
    \/ \E c \in SyncCalls : SyncGetFails(c)
    \/ \E c \in SyncCalls : SyncCreate(c)
    \/ \E c \in SyncCalls : SyncSetex(c)
    \/ \E c \in SyncCalls : SyncSetexFails(c)
    \/ \E c \in SyncCalls : SyncReturn(c)

SpecSyncOutage == InitSync /\ [][NextSyncOutage]_vars

---------------------------------------------------------------------------
(* Requests that overlap: each awaited database call of a request is a step, *)
(* and steps of other requests may come between two of them                  *)

\* the request is answered
Answered(k, op, result) ==
    /\ calls' = [calls EXCEPT ![k] = [calls[k] EXCEPT !.pc = "done", !.result = result]]
    /\ last' = Outcome(op, result)

\* PATCH /orders/:id/status arrives
UpdateOrderStatusCall(k, orderId, newStatus) ==
    /\ calls[k].pc = "idle"
    /\ calls' = [calls EXCEPT ![k] =
            [pc |-> "statusRead", op |-> "updateOrderStatus", orderId |-> orderId,
             newStatus |-> newStatus, result |-> ""]]
    /\ UNCHANGED <<orders, statusLog, deliveries, drivers, carts, menuItems, clientMap, sync,
                   last, queueVars, auth>>

\* cancelOrder: findUnique and the checks of cancelOrder itself, then the call of
\* updateOrderStatus(orderId, 'CANCELLED')
CancelOrderCall(k, orderId, userId) ==
    LET error == IF orderId \notin DOMAIN orders THEN "NotFound"
                 ELSE IF orders[orderId].userId # userId THEN "NotFound"
                 ELSE IF orders[orderId].status \notin {"PENDING", "CONFIRMED"}
                      THEN "BadRequest"
                 ELSE ""
    IN  /\ calls[k].pc = "idle"
        /\ IF error # ""
           THEN /\ calls' = [calls EXCEPT ![k] =
                        [pc |-> "done", op |-> "cancelOrder", orderId |-> orderId,
                         newStatus |-> "CANCELLED", result |-> error]]
                /\ last' = Outcome("cancelOrder", error)
           ELSE /\ calls' = [calls EXCEPT ![k] =
                        [pc |-> "statusRead", op |-> "cancelOrder", orderId |-> orderId,
                         newStatus |-> "CANCELLED", result |-> ""]]
                /\ UNCHANGED last
        /\ UNCHANGED <<orders, statusLog, deliveries, drivers, carts, menuItems, clientMap, sync,
                       queueVars, auth>>

\* updateOrderStatus: prisma.order.findUnique and the check against the table
UpdateOrderStatusRead(k) ==
    LET call == calls[k]
        error == UpdateOrderStatusError(call.orderId, call.newStatus)
    IN  /\ call.pc = "statusRead"
        /\ IF error # ""
           THEN Answered(k, call.op, error)
           ELSE /\ calls' = [calls EXCEPT ![k] = [call EXCEPT !.pc = "statusWrite"]]
                /\ UNCHANGED last
        /\ UNCHANGED <<orders, statusLog, deliveries, drivers, carts, menuItems, clientMap, sync,
                       queueVars, auth>>

\* updateOrderStatus: prisma.order.update({ data: { status: newStatus } })
UpdateOrderStatusWrite(k) ==
    LET call == calls[k]
    IN  /\ call.pc = "statusWrite"
        /\ orders' = [orders EXCEPT ![call.orderId].status = call.newStatus]
        /\ statusLog' = Logged(orders')
        /\ Answered(k, call.op, "ok")
        /\ UNCHANGED <<deliveries, drivers, carts, menuItems, clientMap, sync, queueVars, auth>>

\* assignDriver: the two findUnique calls and the checks on what they returned
AssignDriverRead(k, orderId, driverId) ==
    LET error == AssignDriverError(orderId, driverId)
    IN  /\ calls[k].pc = "idle"
        /\ IF error # ""
           THEN /\ calls' = [calls EXCEPT ![k] =
                        [pc |-> "done", op |-> "assignDriver", orderId |-> orderId,
                         driverId |-> driverId, result |-> error]]
                /\ last' = Outcome("assignDriver", error)
           ELSE /\ calls' = [calls EXCEPT ![k] =
                        [pc |-> "assignTx", op |-> "assignDriver", orderId |-> orderId,
                         driverId |-> driverId, status |-> orders[orderId].status,
                         result |-> ""]]
                /\ UNCHANGED last
        /\ UNCHANGED <<orders, statusLog, deliveries, drivers, carts, menuItems, clientMap, sync,
                       queueVars, auth>>

\* assignDriver: prisma.$transaction creates the Delivery, moves the order to
\* ON_THE_WAY if the order that was read is PREPARING, and flips the driver
AssignDriverTx(k) ==
    LET call == calls[k]
    IN  /\ call.pc = "assignTx"
        /\ deliveries' = Append(deliveries, NewDelivery(call.orderId, call.driverId))
        /\ orders' = IF call.status = "PREPARING"
                     THEN [orders EXCEPT ![call.orderId].status = "ON_THE_WAY"]
                     ELSE orders
        /\ statusLog' = Logged(orders')
        /\ drivers' = DriversAfterAssign(call.driverId)
        /\ Answered(k, "assignDriver", "ok")
        /\ UNCHANGED <<carts, menuItems, clientMap, sync, queueVars, auth>>

\* the response has been sent: the connection serves the next request
CallReturn(k) ==
    /\ calls[k].pc = "done"
    /\ calls' = [calls EXCEPT ![k] = [pc |-> "idle"]]
    /\ UNCHANGED <<orders, statusLog, deliveries, drivers, carts, menuItems, clientMap, sync,
                   last, queueVars, auth>>

\* updateDeliveryStatus: the findUnique and the check of the transition on what it
\* returned
UpdateDeliveryStatusRead(k, deliveryId, newStatus) ==
    LET error == UpdateDeliveryStatusError(deliveryId, newStatus)
    IN  /\ calls[k].pc = "idle"
        /\ IF error # ""
           THEN /\ calls' = [calls EXCEPT ![k] =
                        [pc |-> "done", op |-> "updateDeliveryStatus",
                         deliveryId |-> deliveryId, newStatus |-> newStatus,
                         result |-> error]]
                /\ last' = Outcome("updateDeliveryStatus", error)
           ELSE /\ calls' = [calls EXCEPT ![k] =
                        [pc |-> "deliveryTx", op |-> "updateDeliveryStatus",
                         deliveryId |-> deliveryId, newStatus |-> newStatus,
                         result |-> ""]]
                /\ UNCHANGED last
        /\ UNCHANGED <<orders, statusLog, deliveries, drivers, carts, menuItems, clientMap, sync,
                       queueVars, auth>>

\* updateDeliveryStatus: prisma.$transaction writes the status to the delivery and,
\* for DELIVERED, writes the order and frees and counts the driver; the status the
\* delivery has by now is not looked at
UpdateDeliveryStatusTx(k) ==
    LET call == calls[k]
    IN  /\ call.pc = "deliveryTx"
        /\ deliveries' = [deliveries EXCEPT ![call.deliveryId] =
                DeliveryAfterUpdate(deliveries[call.deliveryId], call.newStatus)]
        /\ orders' = OrdersAfterDelivery(call.deliveryId, call.newStatus)
        /\ statusLog' = Logged(orders')
        /\ drivers' = DriversAfterDelivery(call.deliveryId, call.newStatus)
        /\ Answered(k, "updateDeliveryStatus", "ok")
        /\ UNCHANGED <<carts, menuItems, clientMap, sync, queueVars, auth>>

\* status requests of the restaurant and of the customer that may overlap
NextStatusRace ==
    \/ \E data \in LifecycleRequests :
          Len(orders) < MaxContended /\ CreateOrder("u1", data)
    \/ \E k \in Requests, o \in 0..Len(orders), s \in OrderStatus :
          UpdateOrderStatusCall(k, o, s)
    \/ \E k \in Requests, o \in 0..Len(orders), u \in Users : CancelOrderCall(k, o, u)
    \/ \E k \in Requests : UpdateOrderStatusRead(k)
    \/ \E k \in Requests : UpdateOrderStatusWrite(k)
    \/ \E k \in Requests : CallReturn(k)

SpecStatusRace == Init /\ [][NextStatusRace]_vars

\* no other assignDriver request for the same order is between its reads and its
\* transaction
AloneOnOrder(k, orderId) ==
    \A k2 \in Requests \ {k} : calls[k2].pc = "assignTx" => calls[k2].orderId # orderId

\* two dispatchers assign drivers to different orders at the same time; the
\* orders are confirmed and prepared one request at a time
NextAssignRace ==
    \/ \E data \in LifecycleRequests :
          Len(orders) < MaxOrders /\ CreateOrder("u1", data)
    \/ \E o \in 0..Len(orders), s \in {"CONFIRMED", "PREPARING"} : UpdateOrderStatus(o, s)
    \/ \E k \in Requests, o \in 0..Len(orders), d \in DriverIds \cup {NoDriver} :
          AloneOnOrder(k, o) /\ AssignDriverRead(k, o, d)
    \/ \E k \in Requests : AssignDriverTx(k)
    \/ \E k \in Requests : CallReturn(k)

SpecAssignRace == Init /\ [][NextAssignRace]_vars

\* the driver's app reports the stages of a delivery; a report may be sent again
\* before the first one is answered
NextDeliveryRace ==
    \/ \E data \in LifecycleRequests :
          Len(orders) < MaxContended /\ CreateOrder("u1", data)
    \/ \E o \in 0..Len(orders) : UpdateOrderStatus(o, "CONFIRMED")
    \/ \E o \in 0..Len(orders) : AssignDriver(o, "d1")
    \/ \E b \in BOOLEAN : UpdateDriverAvailability("d1", b)
    \/ UpdateDriverLocation("d1", 10, 10)
    \/ \E k \in Requests, id \in 0..Len(deliveries), s \in DeliveryStatus :
          UpdateDeliveryStatusRead(k, id, s)
    \/ \E k \in Requests : UpdateDeliveryStatusTx(k)
    \/ \E k \in Requests : CallReturn(k)

SpecDeliveryRace == Init /\ [][NextDeliveryRace]_vars

---------------------------------------------------------------------------
(* Menu maintenance while orders are placed and processed *)

\* the price the staff sets, in thousandths
NewPrices == {9990}

\* request bodies of PATCH /menu/items/:id
MenuUpdates ==
    {[price |-> p] : p \in NewPrices}
        \cup {[isAvailable |-> b] : b \in BOOLEAN}
        \cup {[categoryId |-> k] : k \in DOMAIN MenuCategories \cup {NoCategory}}
        \cup {[price |-> p, isAvailable |-> FALSE] : p \in NewPrices}

\* orders for the item the staff maintains: with an item list and from the cart
MenuOrderRequests ==
    {[restaurantId |-> "r1", items |-> <<[menuItemId |-> "m1", quantity |-> MaxQuantity]>>],
     [restaurantId |-> "r1", items |-> <<>>]}

NextMenu ==
    \/ carts["u1"] = <<>> /\ AddToCart("u1", "m1", 1)
    \/ \E data \in MenuOrderRequests :
          Len(orders) < MaxPriced /\ CreateOrder("u1", data)
    \/ \E id \in {"m1", NoMenuItem}, data \in MenuUpdates : UpdateMenuItem(id, data)
    \/ \E o \in DOMAIN orders, s \in OrderStatus : UpdateOrderStatus(o, s)
    \/ \E o \in DOMAIN orders : CancelOrder(o, "u1")
    \/ \E o \in DOMAIN orders : AssignDriver(o, "d1")
    \/ \E k \in DOMAIN deliveries, s \in DeliveryStatus : UpdateDeliveryStatus(k, s)

SpecMenu == Init /\ [][NextMenu]_vars

---------------------------------------------------------------------------
(* Drivers report their position while deliveries are dispatched *)

\* positions a driver's device sends: a valid one, and one with each coordinate
\* out of range
Positions ==
    {[latitude |-> 45, longitude |-> 10],
     [latitude |-> 91, longitude |-> 10],
     [latitude |-> 45, longitude |-> 181]}

NextLocation ==
    \/ Len(orders) < MaxOrders /\ CreateOrder("u1", [restaurantId |-> "r1",
                    items |-> <<[menuItemId |-> "m1", quantity |-> 1]>>])
    \/ \E o \in DOMAIN orders : UpdateOrderStatus(o, "CONFIRMED")
    \/ \E o \in DOMAIN orders, d \in DriverIds : AssignDriver(o, d)
    \/ \E k \in DOMAIN deliveries, s \in DeliveryStatus : UpdateDeliveryStatus(k, s)
    \/ \E b \in BOOLEAN : UpdateDriverAvailability("d1", b)
    \/ \E p \in Positions : PostLocation("d1", p.latitude, p.longitude)
    \/ \E p \in Positions : OnLocationUpdate("d1", p.latitude, p.longitude)

SpecLocation == Init /\ [][NextLocation]_vars

---------------------------------------------------------------------------
(* DeliveryService.getAvailableDrivers *)

Abs(n) == IF n < 0 THEN -n ELSE n

\* calculateDistance for two points on one meridian, in metres: with dLon = 0 the
\* haversine formula gives R * |lat2 - lat1| * pi / 180 (pi taken as 3.1416)
CalculateDistance(lat1, lon1, lat2, lon2) ==
    (EarthRadiusKm * 31416 * Abs(lat2 - lat1)) \div 1800

\* { ...driver, distance }: the distance is null (<<>>) unless both coordinates are set
WithDistance(row, restaurantLat, restaurantLng) ==
    [id |-> row.id,
     currentLat |-> row.currentLat,
     currentLng |-> row.currentLng,
     distance |-> IF row.currentLat # <<>> /\ row.currentLng # <<>>
                  THEN <<CalculateDistance(restaurantLat, restaurantLng,
                                           row.currentLat[1], row.currentLng[1])>>
                  ELSE <<>>]

\* a comparator that puts the drivers of unknown position first
CompareUnknownFirst(a, b) ==
    IF a.distance = <<>> THEN -1
    ELSE IF b.distance = <<>> THEN 1
    ELSE a.distance[1] - b.distance[1]

\* the comparator handed to sort
CompareDistance(a, b) ==
    IF a.distance = <<>> THEN 1
    ELSE IF b.distance = <<>> THEN -1
    ELSE a.distance[1] - b.distance[1]

\* insert x into the sorted list s in front of the first element the comparator
\* puts behind x
RECURSIVE InsertByDistance(_, _)
InsertByDistance(s, x) ==
    IF s = <<>> THEN <<x>>
    ELSE IF CompareDistance(x, Head(s)) < 0 THEN <<x>> \o s
    ELSE <<Head(s)>> \o InsertByDistance(Tail(s), x)

\* driversWithDistance.sort(comparator): stable insertion, as for short arrays
RECURSIVE SortByDistance(_)
SortByDistance(rows) ==
    IF rows = <<>> THEN <<>>
    ELSE InsertByDistance(SortByDistance(SubSeq(rows, 1, Len(rows) - 1)), rows[Len(rows)])

\* the rows findMany({ where: { isAvailable: true } }) may return: the available
\* drivers in any order
FoundAvailable ==
    LET available == {d \in DOMAIN drivers : drivers[d].isAvailable}
    IN  {[i \in DOMAIN f |-> [id |-> f[i],
                             currentLat |-> drivers[f[i]].currentLat,
                             currentLng |-> drivers[f[i]].currentLng]] :
            f \in {g \in [1..Cardinality(available) -> available] :
                      \A i, j \in DOMAIN g : i # j => g[i] # g[j]}}

\* getAvailableDrivers(restaurantLat, restaurantLng); origin is <<>> when a
\* coordinate is undefined
GetAvailableDrivers(found, origin) ==
    /\ last' = [op |-> "getAvailableDrivers",
                result |-> "ok",
                origin |-> origin,
                value |-> IF origin # <<>>
                          THEN SortByDistance([i \in DOMAIN found |->
                                    WithDistance(found[i], origin[1], origin[2])])
                          ELSE found]
    /\ UNCHANGED <<orders, statusLog, deliveries, drivers, carts, menuItems, clientMap, sync,
                   queueVars, calls, auth>>

---------------------------------------------------------------------------
(* The dispatcher looks for a driver near the restaurant *)

FleetNames == <<"d1", "d2", "d3", "d4", "d5">>

Fleet == {FleetNames[i] : i \in 1..MaxFleet}

\* last-known positions: none, or a point on the meridian of the restaurant
FleetPositions == {<<>>, <<-1, 10>>, <<1, 10>>, <<2, 10>>}

\* the origins of a request: none, and two points on that meridian
Origins == {<<>>, <<0, 10>>, <<2, 10>>}

InitFleet ==
    /\ orders = <<>>
    /\ statusLog = <<>>
    /\ deliveries = <<>>
    /\ drivers \in [Fleet -> {[isAvailable |-> b, totalDeliveries |-> 0,
                               currentLat |-> IF p = <<>> THEN <<>> ELSE <<p[1]>>,
                               currentLng |-> IF p = <<>> THEN <<>> ELSE <<p[2]>>] :
                                  b \in BOOLEAN, p \in FleetPositions}]
    /\ carts = [u \in Users |-> <<>>]
    /\ menuItems = SeedMenu
    /\ clientMap = << >>
    /\ sync = IdleSync
    /\ last = Outcome("none", "ok")
    /\ QueueIdle

NextFleet ==
    \E found \in FoundAvailable, origin \in Origins : GetAvailableDrivers(found, origin)

SpecFleet == InitFleet /\ [][NextFleet]_vars

---------------------------------------------------------------------------
(* A customer edits the cart *)

\* what updateCartItem is given: a quantity, or only a note
CartUpdates ==
    {[quantity |-> q] : q \in (-1)..MaxQuantity} \cup {[notes |-> "no onions"]}

\* addToCartSchema lets positive quantities through to addToCart
NextCart ==
    \/ \E m \in MenuIds \cup {NoMenuItem}, q \in 1..MaxQuantity :
          /\ CartQuantity("u1") + q <= MaxCartQuantity
          /\ AddToCart("u1", m, q)
    \/ \E i \in 0..Len(carts["u1"]), data \in CartUpdates : UpdateCartItem("u1", i, data)
    \/ \E i \in 0..Len(carts["u1"]) : RemoveFromCart("u1", i)
    \/ ClearCart("u1")

SpecCart == Init /\ [][NextCart]_vars

---------------------------------------------------------------------------
(* Password reset by one-time code *)

\* the most refresh tokens a user holds
MaxSessions == 1

\* the most forgotPassword calls made for one address inside one window
MaxOtpRequests == 5

\* generateOTP(6) draws the digits at random: any code may come out
OtpCodes == {"111111", "222222"}

Passwords == {"Customer123!", "Changed456!"}

\* redis.incr: a key that is absent counts from zero, a stored key keeps its expiry
Incr(stored) == IF stored = <<>> THEN 1 ELSE stored[1] + 1

\* what forgotPassword answers whether or not it stored a code
GenericResponse ==
    [op |-> "forgotPassword", result |-> "ok",
     message |-> "If the email exists, a password reset OTP will be sent"]

\* forgotPassword that never refuses a request
OtpRequestsUnlimited(current) == FALSE

\* forgotPassword: current > 3
OtpRequestsExceeded(current) == current > 3

\* forgotPassword(email); otp is the code generateOTP draws
ForgotPassword(email, otp) ==
    LET user == UserByEmail(email)
        current == Incr(auth.otpReq[email])
        counted == [auth EXCEPT !.otpReq[email] = <<current>>]
    IN  /\ last' = GenericResponse
        /\ auth' = IF OtpRequestsExceeded(current) \/ user = <<>>
                   THEN counted
                   ELSE [counted EXCEPT
                            !.otp[email] = <<[otp |-> otp, userId |-> user[1].id]>>,
                            !.otpAttempts[email] = <<0>>]
        /\ UNCHANGED <<orders, statusLog, deliveries, drivers, carts, menuItems,
                       clientMap, sync, queueVars, calls>>

ResetFailure(message) ==
    [op |-> "resetPassword", result |-> "BadRequest", message |-> message]

\* resetPassword that counts the attempts and never burns the code
OtpAttemptsUnlimited(n) == FALSE

\* resetPassword: attempts > 5
OtpAttemptsExceeded(n) == n > 5

\* resetPassword(email, otp, newPassword)
ResetPassword(email, otp, newPassword) ==
    LET n == Incr(auth.otpAttempts[email])
        counted == [auth EXCEPT !.otpAttempts[email] = <<n>>]
        stored == auth.otp[email]
    IN  /\ IF OtpAttemptsExceeded(n)
           THEN /\ auth' = [auth EXCEPT !.otp[email] = <<>>,
                                        !.otpAttempts[email] = <<>>]
                /\ last' = ResetFailure("Too many OTP attempts. Please request a new OTP.")
           ELSE IF stored = <<>>
           THEN /\ auth' = counted
                /\ last' = ResetFailure("Invalid or expired OTP")
           ELSE IF otp # stored[1].otp
           THEN /\ auth' = counted
                /\ last' = ResetFailure("Invalid OTP")
           ELSE /\ auth' = [auth EXCEPT
                              !.password[stored[1].userId] = Argon2Hash(newPassword),
                              !.otp[email] = <<>>,
                              !.otpAttempts[email] = <<>>,
                              !.refreshTokens[stored[1].userId] = 0]
                /\ last' = Outcome("resetPassword", "ok")
        /\ UNCHANGED <<orders, statusLog, deliveries, drivers, carts, menuItems,
                       clientMap, sync, queueVars, calls>>

\* login(email, password): a refresh token row is created for the user
Login(email, password) ==
    LET user == UserByEmail(email)
    IN  /\ IF user = <<>>
           THEN /\ last' = Outcome("login", "Unauthorized")
                /\ UNCHANGED auth
           ELSE IF ~user[1].isActive
           THEN /\ last' = Outcome("login", "Unauthorized")
                /\ UNCHANGED auth
           ELSE IF ~Argon2Verify(auth.password[user[1].id], password)
           THEN /\ last' = Outcome("login", "Unauthorized")
                /\ UNCHANGED auth
           ELSE /\ last' = Outcome("login", "ok")
                /\ auth' = [auth EXCEPT !.refreshTokens[user[1].id] = @ + 1]
        /\ UNCHANGED <<orders, statusLog, deliveries, drivers, carts, menuItems,
                       clientMap, sync, queueVars, calls>>

\* the store drops otp:req:<email> fifteen minutes after the first request counted
ExpireOtpRequests(email) ==
    /\ auth.otpReq[email] # <<>>
    /\ auth' = [auth EXCEPT !.otpReq[email] = <<>>]
    /\ UNCHANGED <<orders, statusLog, deliveries, drivers, carts, menuItems,
                   clientMap, sync, last, queueVars, calls>>

\* the store drops otp:<email> fifteen minutes after forgotPassword stored it
ExpireOtp(email) ==
    /\ auth.otp[email] # <<>>
    /\ auth' = [auth EXCEPT !.otp[email] = <<>>]
    /\ UNCHANGED <<orders, statusLog, deliveries, drivers, carts, menuItems,
                   clientMap, sync, last, queueVars, calls>>

\* the store drops otp:attempts:<email>; forgotPassword writes it after the code with
\* the same lifetime, so it never goes before the code does
ExpireOtpAttempts(email) ==
    /\ auth.otpAttempts[email] # <<>>
    /\ auth.otp[email] = <<>>
    /\ auth' = [auth EXCEPT !.otpAttempts[email] = <<>>]
    /\ UNCHANGED <<orders, statusLog, deliveries, drivers, carts, menuItems,
                   clientMap, sync, last, queueVars, calls>>

\* the password calls of the auth routes, and the expiry of the keys they store
NextAuth ==
    \/ \E e \in Emails, otp \in OtpCodes :
          /\ Incr(auth.otpReq[e]) <= MaxOtpRequests
          /\ ForgotPassword(e, otp)
    \/ \E e \in Emails, otp \in OtpCodes, p \in Passwords : ResetPassword(e, otp, p)
    \/ \E e \in Emails, p \in Passwords :
          /\ auth.refreshTokens["u1"] < MaxSessions
          /\ Login(e, p)
    \/ \E e \in Emails : ExpireOtpRequests(e)
    \/ \E e \in Emails : ExpireOtp(e)
    \/ \E e \in Emails : ExpireOtpAttempts(e)

SpecAuth == Init /\ [][NextAuth]_vars

---------------------------------------------------------------------------
(* Properties of the order and delivery lifecycle *)

\* C1: every change of an order's status goes from a status to one of its
\* direct successors in STATUS_TRANSITIONS, whichever operation writes it.
C1_StatusFollowsTable ==
    [][\A i \in DOMAIN orders :
          orders'[i].status # orders[i].status
              => orders'[i].status \in STATUS_TRANSITIONS[orders[i].status]]_vars

\* C2: once an order is CANCELLED or DELIVERED no operation changes its status.
C2_TerminalAbsorbing ==
    [][\A i \in DOMAIN orders :
          orders[i].status \in {"CANCELLED", "DELIVERED"}
              => orders'[i].status = orders[i].status]_vars

\* C3: an order that is DELIVERED was ON_THE_WAY in an earlier state.
C3_DeliveredWasOnTheWay ==
    \A i \in DOMAIN orders :
        orders[i].status = "DELIVERED" => "ON_THE_WAY" \in statusLog[i]

\* C4: each driver has at most one delivery in ASSIGNED, PICKED_UP or IN_TRANSIT.
C4_OneActiveDeliveryPerDriver ==
    \A d \in DriverIds : Cardinality(ActiveDeliveriesOf(d)) <= 1

\* C5: each order has zero or one Delivery, and assignDriver on an order that
\* already has a Delivery (in any delivery status) throws BadRequest, whichever
\* driver is named, so that it creates no second Delivery.
C5_OneDeliveryPerOrder ==
    \A o \in DOMAIN orders :
        /\ Cardinality(DeliveriesOfOrder(o)) <= 1
        /\ DeliveriesOfOrder(o) # {}
              => \A d \in DriverIds \cup {NoDriver} : AssignDriverError(o, d) = "BadRequest"

\* C5 witness: assignDriver was refused on an order whose delivery is already DELIVERED,
\* and on one whose delivery is still ASSIGNED.
C5_Witness ==
    /\ last = Outcome("assignDriver", "BadRequest")
    /\ \E k \in DOMAIN deliveries : deliveries[k].status = "DELIVERED"
    /\ \E k \in DOMAIN deliveries :
          /\ deliveries[k].status = "ASSIGNED"
          /\ orders[deliveries[k].orderId].status = "CONFIRMED"
    /\ \A o \in DOMAIN orders : DeliveriesOfOrder(o) # {}
    /\ \E d \in DriverIds : drivers[d].isAvailable

\* C6: no driver is available while holding an active delivery.
C6_AvailableMeansIdle ==
    \A d \in DriverIds : drivers[d].isAvailable => ActiveDeliveriesOf(d) = {}

---------------------------------------------------------------------------
(* Properties of the offline sync.  Key-value commands complete: the client   *)
(* of config/redis.ts queues commands while the store is away, and the        *)
(* mappings are younger than their 24 hours.                                  *)

\* the events of a call's trace that are `ev` on the item at position i
EventsAt(call, ev, i) ==
    {e \in DOMAIN call.trace : call.trace[e].ev = ev /\ call.trace[e].at = i}

\* b is a permutation of a
IsPermutation(a, b) ==
    /\ Len(a) = Len(b)
    /\ \A x \in {a[i] : i \in DOMAIN a} \cup {b[i] : i \in DOMAIN b} :
          Cardinality({i \in DOMAIN a : a[i] = x}) = Cardinality({i \in DOMAIN b : b[i] = x})

\* call b resubmits, after call a has answered, the batch of call a for the same customer
Resubmits(a, b) ==
    /\ sync[a].pc = "done"
    /\ sync[b].pc = "done"
    /\ a \in sync[b].after
    /\ sync[a].userId = sync[b].userId
    /\ sync[a].orders = sync[b].orders

\* C7: when a customer submits the same batch twice, one call after the other,
\* every clientId that succeeded in the first response has the same orderId and
\* orderNumber in the second response, and exactly one Order was created for it.
C7_ResubmissionIdempotent ==
    \A a, b \in SyncCalls :
        Resubmits(a, b) =>
            LET ra == sync[a].response.results
                rb == sync[b].response.results
            IN  \A i \in DOMAIN ra :
                    ra[i].success =>
                        /\ i \in DOMAIN rb
                        /\ rb[i] = ra[i]
                        /\ \A j \in DOMAIN rb :
                              rb[j].clientId = ra[i].clientId
                                  => /\ rb[j].success
                                     /\ rb[j].orderId = ra[i].orderId
                                     /\ rb[j].orderNumber = ra[i].orderNumber
                        /\ Cardinality({p \in sync[a].created \cup sync[b].created :
                                            p.clientId = ra[i].clientId}) = 1
                        /\ orders[ra[i].orderId].userId = sync[a].userId
                        /\ orders[ra[i].orderId].orderNumber = ra[i].orderNumber

\* C7 witness: a batch with one failure and two Orders created was submitted again
\* and answered from the stored mappings.
C7_Witness ==
    \E a, b \in SyncCalls :
        /\ Resubmits(a, b)
        /\ sync[a].response.successful = 2
        /\ sync[a].response.failed = 1
        /\ Cardinality(sync[a].created) = 2
        /\ sync[b].created = {}
        /\ sync[b].response.successful = 3

\* C8: a batch is replayed in ascending order of createdAt whatever the order of
\* the request, one item at a time: of two items with createdAt(a) < createdAt(b)
\* the createOrder call for a has ended before the one for b starts.
C8_ChronologicalReplay ==
    \A c \in SyncCalls :
        sync[c].pc # "idle" =>
            LET call == sync[c]
                tr == call.trace
            IN  /\ IsPermutation(call.orders, call.sorted)
                /\ \A j, k \in DOMAIN tr :
                      (GetTime(tr[j].createdAt) < GetTime(tr[k].createdAt)) => j < k
                /\ \A j, k \in DOMAIN tr :
                      (j < k /\ tr[j].ev = "createStart" /\ tr[k].ev = "createStart")
                          => \E e \in (j + 1)..(k - 1) :
                                tr[e].ev = "createEnd" /\ tr[e].at = tr[j].at
                /\ call.pc = "done" =>
                      \A i \in DOMAIN call.sorted :
                          \/ EventsAt(call, "hit", i) # {}
                          \/ EventsAt(call, "createStart", i) # {}

\* C8 witness: a batch sent newest first was answered after two createOrder calls.
C8_Witness ==
    \E c \in SyncCalls :
        /\ sync[c].pc = "done"
        /\ Len(sync[c].orders) = MaxBatch
        /\ \A i \in 1..(MaxBatch - 1) :
              GetTime(sync[c].orders[i].createdAt) >= GetTime(sync[c].orders[i + 1].createdAt)
        /\ GetTime(sync[c].orders[1].createdAt) > GetTime(sync[c].orders[MaxBatch].createdAt)
        /\ Cardinality({e \in DOMAIN sync[c].trace : sync[c].trace[e].ev = "createStart"}) >= 2

---------------------------------------------------------------------------
(* Properties of pricing *)

\* C10: every Order persisted by createOrder, from the cart or from an explicit
\* item list, has totalAmount = subtotal + tax + deliveryFee, subtotal = the sum
\* of its lines' totalPrice, each totalPrice = unitPrice * quantity with the menu's
\* price as unitPrice, tax = 10% of subtotal and deliveryFee = 5.00; no value comes
\* from the request.
C10_TotalsConsistent ==
    \A o \in DOMAIN orders :
        LET order == orders[o]
        IN  /\ order.totalAmount = order.subtotal + order.tax + order.deliveryFee
            /\ order.subtotal = SumSeq([i \in DOMAIN order.items |-> order.items[i].totalPrice])
            /\ order.items # <<>>
            /\ \A i \in DOMAIN order.items :
                  /\ order.items[i].totalPrice = order.items[i].unitPrice * order.items[i].quantity
                  /\ order.items[i].unitPrice = SeedMenu[order.items[i].menuItemId].price
            /\ order.tax * 10 = order.subtotal
            /\ order.deliveryFee = 5000

\* C10 witness: two units at 8.99 ordered by an explicit list while the cart holds
\* something else: subtotal 17.98, tax 1.798, fee 5.00, total 24.778.
C10_Witness ==
    /\ last = Outcome("createOrder", "ok")
    /\ carts["u1"] # <<>>
    /\ \E o \in DOMAIN orders :
          /\ orders[o].subtotal = 17980
          /\ orders[o].tax = 1798
          /\ orders[o].deliveryFee = 5000
          /\ orders[o].totalAmount = 24778

---------------------------------------------------------------------------
(* Properties of createOrder *)

\* the request names a restaurant or (explicit list) a menu item that does not exist
NotFoundDefect(userId, data) ==
    \/ data.restaurantId \notin Restaurants
    \/ \E i \in DOMAIN data.items : data.items[i].menuItemId \notin MenuIds

\* an item is unavailable or of another restaurant, or (cart path) the cart is empty
BadRequestDefect(userId, data) ==
    LET source == IF data.items = <<>> THEN carts[userId] ELSE data.items
    IN  \/ data.items = <<>> /\ carts[userId] = <<>>
        \/ \E i \in DOMAIN source :
              /\ source[i].menuItemId \in MenuIds
              /\ \/ ~SeedMenu[source[i].menuItemId].isAvailable
                 \/ MenuCategories[SeedMenu[source[i].menuItemId].categoryId].restaurantId # data.restaurantId

\* C11: createOrder fails exactly when the restaurant or a referenced menu item is
\* missing (NotFound) or an item is unavailable, of another restaurant, or the cart
\* of a cart-sourced order is empty (BadRequest); a failure persists no Order and
\* leaves the cart unchanged; a success persists exactly one new Order, in PENDING.
C11_CreateOrderAllOrNothing ==
    [][last'.op = "createOrder" =>
        \A data \in OrderRequests :
            CreateOrder("u1", data) =>
                LET notFound == NotFoundDefect("u1", data)
                    badRequest == BadRequestDefect("u1", data)
                    failed == last'.result # "ok"
                IN  /\ failed <=> (notFound \/ badRequest)
                    /\ failed => last'.result \in {"NotFound", "BadRequest"}
                    /\ last'.result = "NotFound" => notFound
                    /\ last'.result = "BadRequest" => badRequest
                    /\ failed => orders' = orders /\ carts' = carts
                    /\ ~failed =>
                          /\ Len(orders') = Len(orders) + 1
                          /\ SubSeq(orders', 1, Len(orders)) = orders
                          /\ orders'[Len(orders')].status = "PENDING"
                          /\ orders'[Len(orders')].userId = "u1"]_vars

\* C11 witness: a createOrder was rejected with BadRequest while the cart held
\* items; no order exists and the cart still holds them.
C11_Witness ==
    /\ last = Outcome("createOrder", "BadRequest")
    /\ orders = <<>>
    /\ Len(carts["u1"]) = 2

\* the (menuItemId, quantity) lines of a list of cart items or order items
LinesOf(items) ==
    [i \in DOMAIN items |-> [menuItemId |-> items[i].menuItemId, quantity |-> items[i].quantity]]

\* C12: a successful createOrder empties the cart exactly when the order was sourced
\* from the cart, and then the Order holds exactly the lines the cart held; with an
\* explicit item list the cart is unchanged and the Order holds the listed lines.
C12_CartClearedIffSourced ==
    [][last'.op = "createOrder" /\ last'.result = "ok" =>
        \A data \in OrderRequests :
            CreateOrder("u1", data) =>
                LET order == orders'[Len(orders')]
                IN  IF data.items = <<>>
                    THEN /\ carts'["u1"] = <<>>
                         /\ LinesOf(order.items) = LinesOf(carts["u1"])
                         /\ \A u \in Users \ {"u1"} : carts'[u] = carts[u]
                    ELSE /\ carts' = carts
                         /\ LinesOf(order.items) = LinesOf(data.items)]_vars

\* C12 witness: an order with a line of more units than one request line can carry
\* (so it came from the cart, filled by two addToCart calls) and the cart is empty.
C12_Witness ==
    /\ last = Outcome("createOrder", "ok")
    /\ carts["u1"] = <<>>
    /\ \E o \in DOMAIN orders :
          /\ Len(orders[o].items) = 1
          /\ orders[o].items[1].quantity > MaxQuantity

---------------------------------------------------------------------------
(* Properties of updateOrderStatus and cancelOrder *)

\* C13: updateOrderStatus(orderId, newStatus) fails with NotFound for an unknown
\* order; it succeeds exactly when newStatus is a direct successor of the current
\* status and then writes that one status and nothing else; otherwise it fails with
\* BadRequest "Cannot transition from <current> to <newStatus>" and changes nothing.
C13_UpdateOrderStatusContract ==
    [][last'.op = "updateOrderStatus" =>
        \A o \in 0..Len(orders), s \in OrderStatus :
            UpdateOrderStatus(o, s) =>
                IF o \notin DOMAIN orders
                THEN last'.result = "NotFound" /\ orders' = orders
                ELSE IF s \in STATUS_TRANSITIONS[orders[o].status]
                THEN /\ last'.result = "ok"
                     /\ orders' = [orders EXCEPT ![o].status = s]
                     /\ UNCHANGED <<deliveries, drivers, carts>>
                ELSE /\ last'.result = "BadRequest"
                     /\ UpdateOrderStatusMessage(o, s) =
                            <<"Cannot transition from", orders[o].status, "to", s>>
                     /\ orders' = orders]_vars

\* C13 witness: a status request was refused while one order is PENDING and the
\* other has been moved along the table to PREPARING.
C13_Witness ==
    /\ last = Outcome("updateOrderStatus", "BadRequest")
    /\ \E o \in DOMAIN orders : orders[o].status = "PENDING"
    /\ \E o \in DOMAIN orders : orders[o].status = "PREPARING"

\* C14: cancelOrder(orderId, customerId) fails with NotFound when the order does not
\* exist or belongs to another customer, with BadRequest when its status is
\* PREPARING, ON_THE_WAY, DELIVERED or CANCELLED, and otherwise sets the status to
\* CANCELLED; a failed call leaves the order unchanged.
C14_CancelOrderContract ==
    [][last'.op = "cancelOrder" =>
        \A o \in 0..Len(orders), u \in Users :
            CancelOrder(o, u) =>
                IF o \notin DOMAIN orders \/ orders[o].userId # u
                THEN last'.result = "NotFound" /\ orders' = orders
                ELSE IF orders[o].status \in {"PREPARING", "ON_THE_WAY", "DELIVERED", "CANCELLED"}
                THEN last'.result = "BadRequest" /\ orders' = orders
                ELSE /\ orders[o].status \in {"PENDING", "CONFIRMED"}
                     /\ last'.result = "ok"
                     /\ orders' = [orders EXCEPT ![o].status = "CANCELLED"]
                     /\ UNCHANGED <<deliveries, drivers, carts>>]_vars

\* C14 witness: a cancellation was refused while one order is PREPARING and the
\* other was cancelled earlier.
C14_Witness ==
    /\ last = Outcome("cancelOrder", "BadRequest")
    /\ \E o \in DOMAIN orders : orders[o].status = "PREPARING"
    /\ \E o \in DOMAIN orders : orders[o].status = "CANCELLED"

---------------------------------------------------------------------------
(* Properties of assignDriver, updateDeliveryStatus and updateDriverAvailability *)

\* C15: an assignDriver call writes all of its effects or none of them: after a
\* successful call a new Delivery in ASSIGNED exists for the order and the driver,
\* the driver's isAvailable is false, and the order is ON_THE_WAY if it was
\* PREPARING and still CONFIRMED if it was CONFIRMED; a call that did not succeed
\* wrote nothing.
C15_AssignDriverAtomic ==
    [][last'.op = "assignDriver" =>
        \A o \in 0..Len(orders), d \in DriverIds \cup {NoDriver} :
            AssignDriver(o, d) =>
                IF last'.result = "ok"
                THEN /\ Len(deliveries') = Len(deliveries) + 1
                     /\ SubSeq(deliveries', 1, Len(deliveries)) = deliveries
                     /\ deliveries'[Len(deliveries')].orderId = o
                     /\ deliveries'[Len(deliveries')].driverId = d
                     /\ deliveries'[Len(deliveries')].status = "ASSIGNED"
                     /\ drivers'[d].isAvailable = FALSE
                     /\ drivers'[d].totalDeliveries = drivers[d].totalDeliveries
                     /\ \A e \in DriverIds \ {d} : drivers'[e] = drivers[e]
                     /\ orders[o].status \in {"PREPARING", "CONFIRMED"}
                     /\ orders[o].status = "PREPARING" =>
                            orders' = [orders EXCEPT ![o].status = "ON_THE_WAY"]
                     /\ orders[o].status = "CONFIRMED" => orders' = orders
                ELSE UNCHANGED <<deliveries, drivers, orders>>]_vars

\* C15 witness: an assignment has just succeeded for a PREPARING order, now
\* ON_THE_WAY, while an earlier assignment left its CONFIRMED order CONFIRMED.
C15_Witness ==
    /\ last = Outcome("assignDriver", "ok")
    /\ Len(deliveries) = 2
    /\ deliveries[2].status = "ASSIGNED"
    /\ orders[deliveries[2].orderId].status = "ON_THE_WAY"
    /\ orders[deliveries[1].orderId].status = "CONFIRMED"
    /\ ~drivers[deliveries[2].driverId].isAvailable

\* C16: assignDriver fails exactly when the order or the driver does not exist
\* (NotFound) or the order is not CONFIRMED or PREPARING, already has a Delivery,
\* or the driver is not available (BadRequest); a failed call creates no Delivery
\* and leaves the order's status and the driver's availability unchanged.
C16_AssignDriverRejections ==
    [][last'.op = "assignDriver" =>
        \A o \in 0..Len(orders), d \in DriverIds \cup {NoDriver} :
            AssignDriver(o, d) =>
                LET notFound == o \notin DOMAIN orders \/ d \notin DriverIds
                    badRequest ==
                        \/ /\ o \in DOMAIN orders
                           /\ \/ orders[o].status \notin {"CONFIRMED", "PREPARING"}
                              \/ \E k \in DOMAIN deliveries : deliveries[k].orderId = o
                        \/ d \in DriverIds /\ ~drivers[d].isAvailable
                    failed == last'.result # "ok"
                IN  /\ failed <=> (notFound \/ badRequest)
                    /\ failed => last'.result \in {"NotFound", "BadRequest"}
                    /\ last'.result = "NotFound" => notFound
                    /\ last'.result = "BadRequest" => badRequest
                    /\ failed => UNCHANGED <<deliveries, orders, drivers>>]_vars

\* C16 witness: an assignment was refused while a PREPARING order without a
\* delivery is waiting and the driver is busy with another order's delivery.
C16_Witness ==
    /\ last = Outcome("assignDriver", "BadRequest")
    /\ \E o \in DOMAIN orders :
          orders[o].status = "PREPARING" /\ DeliveriesOfOrder(o) = {}
    /\ ~drivers["d1"].isAvailable
    /\ ActiveDeliveriesOf("d1") # {}

\* the one status that follows a delivery status, none after DELIVERED
DeliverySuccessors(status) ==
    CASE status = "ASSIGNED" -> {"PICKED_UP"}
      [] status = "PICKED_UP" -> {"IN_TRANSIT"}
      [] status = "IN_TRANSIT" -> {"DELIVERED"}
      [] status = "DELIVERED" -> {}

C18_DeliveredEffects ==
    [][last'.op = "updateDeliveryStatus" /\ last'.result = "ok" =>
        \A k \in DOMAIN deliveries, s \in DeliveryStatus :
            UpdateDeliveryStatus(k, s) =>
                LET o == deliveries[k].orderId
                    d == deliveries[k].driverId
                IN  IF s = "DELIVERED"
                    THEN /\ orders' = [orders EXCEPT ![o].status = "DELIVERED"]
                         /\ drivers'[d].isAvailable = TRUE
                         /\ drivers'[d].totalDeliveries = drivers[d].totalDeliveries + 1
                         /\ \A e \in DriverIds \ {d} : drivers'[e] = drivers[e]
                    ELSE /\ s \in {"PICKED_UP", "IN_TRANSIT"}
                         /\ UNCHANGED <<orders, drivers>>]_vars

\* C18 witness: a delivery has just been completed: its order is DELIVERED, its
\* driver is available again and has one delivery counted.
C18_Witness ==
    /\ last = Outcome("updateDeliveryStatus", "ok")
    /\ \E k \in DOMAIN deliveries :
          /\ deliveries[k].status = "DELIVERED"
          /\ orders[deliveries[k].orderId].status = "DELIVERED"
          /\ drivers[deliveries[k].driverId].isAvailable
          /\ drivers[deliveries[k].driverId].totalDeliveries = 1

\* C19: updateDriverAvailability(driver, false) fails with BadRequest and leaves
\* isAvailable unchanged while the driver has a delivery in ASSIGNED, PICKED_UP or
\* IN_TRANSIT; when the driver has none (its delivery has reached DELIVERED) the
\* call succeeds and sets isAvailable to false.
C19_OfflineOnlyWhenIdle ==
    [][last'.op = "updateDriverAvailability" =>
        \A d \in DriverIds :
            UpdateDriverAvailability(d, FALSE) =>
                IF \E k \in DOMAIN deliveries :
                      /\ deliveries[k].driverId = d
                      /\ deliveries[k].status \in {"ASSIGNED", "PICKED_UP", "IN_TRANSIT"}
                THEN last'.result = "BadRequest" /\ drivers' = drivers
                ELSE /\ last'.result = "ok"
                     /\ drivers' = [drivers EXCEPT ![d].isAvailable = FALSE]]_vars

\* C19 witness: the driver has gone offline after the delivery it carried reached
\* DELIVERED.
C19_Witness ==
    /\ last = Outcome("updateDriverAvailability", "ok")
    /\ ~drivers["d1"].isAvailable
    /\ drivers["d1"].totalDeliveries = 1
    /\ ActiveDeliveriesOf("d1") = {}
    /\ \E k \in DOMAIN deliveries :
          deliveries[k].driverId = "d1" /\ deliveries[k].status = "DELIVERED"

---------------------------------------------------------------------------
(* Properties of the background queue *)

\* C20: processQueue works in strict FIFO order: the list holds the items in the
\* order of their pushes, every item still in the list was pushed after every item
\* already taken, the createOrder attempts happen in the order of the pushes, and
\* the results of each call are in that same order.
C20_StrictFifo ==
    /\ \A i, j \in DOMAIN queue : i < j => queue[i].n < queue[j].n
    /\ \A i \in DOMAIN queue, j \in DOMAIN attempts : attempts[j] < queue[i].n
    /\ \A i, j \in DOMAIN attempts : i < j => attempts[i] < attempts[j]
    /\ \A c \in DrainCalls :
          drains[c].pc # "idle" =>
              \A i, j \in DOMAIN drains[c].results :
                  i < j => drains[c].results[i].n < drains[c].results[j].n

\* C20 witness: a drain has returned three results, the second a failure, for
\* items that were pushed while it was running, and a second processQueue call
\* made meanwhile returned nothing.
C20_Witness ==
    \E c, c2 \in DrainCalls :
        /\ drains[c].pc = "done"
        /\ Len(drains[c].results) = 3
        /\ drains[c].results[1].success
        /\ ~drains[c].results[2].success
        /\ drains[c].results[3].success
        /\ drains[c].results[1].clientId # drains[c].results[3].clientId
        /\ drains[c2].pc = "done"
        /\ drains[c2].results = <<>>
        /\ Len(attempts) = 3

\* C21: when a processQueue call returns, the list order:queue is empty; claimed
\* for every call, also one made while another drain is running and one during
\* which an item fails.
C21_ReturnsWithEmptyQueue ==
    [][\A c \in DrainCalls :
          drains[c].pc # "done" /\ drains'[c].pc = "done" => queue' = <<>>]_vars

\* whether no processQueue call is inside its loop
NoDrainRunning == \A c \in DrainCalls : drains[c].pc \in {"idle", "done"}

C23_OneResultPerPoppedItem ==
    \A c \in DrainCalls :
        drains[c].pc = "done" =>
            /\ ~drains[c].thrown
            /\ Len(drains[c].results) = drains[c].popped

---------------------------------------------------------------------------
(* Properties of overlapping requests *)

\* the Orders the syncOrders calls of customer u created, with their clientIds
CreatedFor(u) ==
    UNION {sync[c].created : c \in {c2 \in SyncCalls :
                                        sync[c2].pc # "idle" /\ sync[c2].userId = u}}

\* C24: at most one Order is created per (customerId, clientId), for every
\* interleaving of syncOrders calls: a retry of the batch that arrives while the
\* first call is still running creates no second Order for a clientId.
C24_OneOrderPerClientId ==
    \A u \in Users, cid \in ClientIds :
        Cardinality({p.orderId : p \in {q \in CreatedFor(u) : q.clientId = cid}}) <= 1

\* C25: two assignDriver calls that overlap and name the same available driver
\* for two different orders are serialized: a transaction of assignDriver commits
\* only while the driver has no delivery in ASSIGNED, PICKED_UP or IN_TRANSIT, so
\* that at most one of the two calls succeeds.
C25_ConcurrentAssignSerialized ==
    [][\A k \in Requests :
          (calls[k].pc = "assignTx" /\ calls'[k].pc = "done" /\ calls'[k].result = "ok")
              => ActiveDeliveriesOf(calls[k].driverId) = {}]_vars

\* C26: each successful status request applies one valid transition even when
\* requests overlap: whenever a request changes the stored status of an order, the
\* new status is allowed by the transition table from the status stored before,
\* so that the statuses stored for the order form a path in the table.
C26_OverlappingStatusRequests ==
    [][\A k \in Requests :
          LET stored == orders[calls[k].orderId].status
          IN  (calls[k].pc = "statusWrite" /\ calls'[k].pc = "done"
                    /\ calls[k].newStatus # stored)
                  => calls[k].newStatus \in STATUS_TRANSITIONS[stored]]_vars

---------------------------------------------------------------------------
(* Properties of stored orders under menu maintenance *)

\* the prices stored with an order
PricesOf(order) ==
    [subtotal |-> order.subtotal,
     tax |-> order.tax,
     deliveryFee |-> order.deliveryFee,
     totalAmount |-> order.totalAmount,
     items |-> [i \in DOMAIN order.items |->
                   [unitPrice |-> order.items[i].unitPrice,
                    totalPrice |-> order.items[i].totalPrice]]]

\* C27: order prices are a snapshot: the unitPrice and totalPrice of each
\* OrderItem and the subtotal, tax, deliveryFee and totalAmount of the Order are
\* those createOrder stored, whatever happens later: no step, in particular no
\* updateMenuItem and no status transition, changes them for an order that exists.
C27_PricesAreSnapshot ==
    [][\A o \in DOMAIN orders :
          /\ o \in DOMAIN orders'
          /\ PricesOf(orders'[o]) = PricesOf(orders[o])]_vars

\* C27 witness: an order that went through a status transition holds a unit price
\* that differs from the price the menu item has now, and its totals still follow
\* from the stored unit price.
C27_Witness ==
    \E o \in DOMAIN orders :
        /\ orders[o].status = "PREPARING"
        /\ orders[o].items[1].unitPrice # menuItems[orders[o].items[1].menuItemId].price
        /\ ~menuItems[orders[o].items[1].menuItemId].isAvailable
        /\ orders[o].subtotal = orders[o].items[1].unitPrice * orders[o].items[1].quantity

\* C28: every OrderItem of every Order references a menu item that belongs to the
\* restaurant of the Order, also after later menu operations.
C28_ItemsOfOrdersRestaurant ==
    \A o \in DOMAIN orders :
        \A i \in DOMAIN orders[o].items :
            MenuCategories[menuItems[orders[o].items[i].menuItemId].categoryId].restaurantId
                = orders[o].restaurantId

---------------------------------------------------------------------------
(* Properties of the driver position *)

\* row has the position (latitude, longitude)
At(row, latitude, longitude) ==
    row.currentLat = <<latitude>> /\ row.currentLng = <<longitude>>

\* C29: updateDriverLocation(driverId, lat, lon) writes the coordinates to the
\* driver and to the delivery of the driver that is ASSIGNED, PICKED_UP or
\* IN_TRANSIT, so that after the call the coordinates of the driver's active
\* delivery equal the driver's; deliveries that are DELIVERED and deliveries of
\* other drivers are left as they are.
C29_LocationMirrored ==
    [][last'.op = "updateDriverLocation" /\ last'.result = "ok" =>
          \A d \in DriverIds, p \in Positions :
              UpdateDriverLocation(d, p.latitude, p.longitude) =>
                  /\ At(drivers'[d], p.latitude, p.longitude)
                  /\ \A k \in DOMAIN deliveries :
                        IF k \in ActiveDeliveriesOf(d)
                        THEN At(deliveries'[k], p.latitude, p.longitude)
                        ELSE deliveries'[k] = deliveries[k]]_vars

\* a stored coordinate is null or inside the range
InRange(coordinate, bound) ==
    coordinate # <<>> => (coordinate[1] >= -bound /\ coordinate[1] <= bound)

\* C30: no stored driver or delivery position is outside latitude [-90, 90] and
\* longitude [-180, 180], by whatever path the position came in.
C30_PositionsInRange ==
    /\ \A d \in DriverIds :
          InRange(drivers[d].currentLat, 90) /\ InRange(drivers[d].currentLng, 180)
    /\ \A k \in DOMAIN deliveries :
          InRange(deliveries[k].currentLat, 90) /\ InRange(deliveries[k].currentLng, 180)

---------------------------------------------------------------------------
(* Properties of getAvailableDrivers *)

\* C31: getAvailableDrivers returns exactly the drivers whose isAvailable is true,
\* each once; when origin coordinates are supplied the result is in ascending
\* order of distance from the origin, and every driver of unknown position comes
\* after every driver of known position.
C31_AvailableDriversByDistance ==
    last.op = "getAvailableDrivers" =>
        LET v == last.value
            known(i) == drivers[v[i].id].currentLat # <<>> /\ drivers[v[i].id].currentLng # <<>>
            metres(i) == CalculateDistance(last.origin[1], last.origin[2],
                                           drivers[v[i].id].currentLat[1],
                                           drivers[v[i].id].currentLng[1])
        IN  /\ {v[i].id : i \in DOMAIN v} = {d \in DOMAIN drivers : drivers[d].isAvailable}
            /\ Len(v) = Cardinality({d \in DOMAIN drivers : drivers[d].isAvailable})
            /\ last.origin # <<>> =>
                  \A i, j \in DOMAIN v :
                      i < j =>
                          /\ known(j) => known(i)
                          /\ known(i) /\ known(j) => metres(i) <= metres(j)
                          /\ known(i) => v[i].distance = <<metres(i)>>
                          /\ ~known(j) => v[j].distance = <<>>

\* C31 witness: with an origin given, two drivers at the same distance on either
\* side of the origin are followed by a driver of unknown position.
C31_Witness ==
    /\ last.op = "getAvailableDrivers"
    /\ last.origin = <<0, 10>>
    /\ Len(last.value) = 3
    /\ last.value[1].distance = last.value[2].distance
    /\ last.value[1].distance # <<>>
    /\ last.value[1].currentLat # last.value[2].currentLat
    /\ last.value[3].distance = <<>>

---------------------------------------------------------------------------
(* Properties of the cart *)

C33_OtpRequestsRateLimited ==
    [][last'.op = "forgotPassword" =>
          \A e \in Emails, otp \in OtpCodes :
             (ForgotPassword(e, otp) /\ Incr(auth.otpReq[e]) > 3) =>
                /\ last' = GenericResponse
                /\ auth'.otp = auth.otp
                /\ auth'.otpAttempts = auth.otpAttempts
                /\ auth'.password = auth.password]_vars

\* C33 witness: the fifth request for the user's address was answered and the code
\* stored by an earlier request is still there.
C33_Witness ==
    /\ last = GenericResponse
    /\ auth.otpReq["customer@example.com"] = <<5>>
    /\ auth.otp["customer@example.com"] # <<>>

\* C34: a resetPassword call that takes the attempt counter of an address above five
\* fails with BadRequest 'Too many OTP attempts', deletes the stored code and leaves
\* every password as it was, whatever code it supplied; while no code is stored for an
\* address every resetPassword call for it fails with BadRequest (as invalid or
\* expired unless the counter went above five again) and changes no password; and a
\* code appears for an address only by forgotPassword.
C34_OtpBurnedAfterTooManyAttempts ==
    [][/\ last'.op = "resetPassword" =>
             \A e \in Emails, otp \in OtpCodes, p \in Passwords :
                ResetPassword(e, otp, p) =>
                   /\ Incr(auth.otpAttempts[e]) > 5 =>
                         /\ last' = ResetFailure(
                                      "Too many OTP attempts. Please request a new OTP.")
                         /\ auth'.otp[e] = <<>>
                         /\ auth'.password = auth.password
                   /\ auth.otp[e] = <<>> =>
                         /\ last'.result = "BadRequest"
                         /\ Incr(auth.otpAttempts[e]) <= 5 =>
                               last' = ResetFailure("Invalid or expired OTP")
                         /\ auth'.otp[e] = <<>>
                         /\ auth'.password = auth.password
       /\ \A e \in Emails :
             (auth.otp[e] = <<>> /\ auth'.otp[e] # <<>>) => last'.op = "forgotPassword"
      ]_vars

\* C34 witness: the sixth attempt on the user's code was refused as one too many, the
\* code is gone and the password is the seeded one.
C34_Witness ==
    /\ last = ResetFailure("Too many OTP attempts. Please request a new OTP.")
    /\ auth.otp["customer@example.com"] = <<>>
    /\ auth.otpAttempts["customer@example.com"] = <<>>
    /\ auth.otpReq["customer@example.com"] = <<1>>
    /\ auth.password["u1"] = Argon2Hash("Customer123!")

\* the processQueue calls that are inside their loop
DrainsRunning == {c \in DrainCalls : drains[c].pc \notin {"idle", "done"}}

\* C35: in one service instance at most one processQueue call is inside its loop; the
\* flag isProcessing is set exactly while such a call is running, so it is false
\* again after the call that set it has returned or thrown and the next call drains;
\* and a call that starts while the flag is set is over at once, with an empty result
\* list, nothing popped and the list and the flag left as they were.
C35_OneDrainPerInstance ==
    /\ [](/\ Cardinality(DrainsRunning) <= 1
          /\ isProcessing <=> DrainsRunning # {})
    /\ [][\A c \in DrainCalls :
             (isProcessing /\ drains[c].pc = "idle" /\ drains'[c].pc # "idle") =>
                /\ drains'[c].pc = "done"
                /\ drains'[c].results = <<>>
                /\ drains'[c].popped = 0
                /\ ~drains'[c].thrown
                /\ queue' = queue
                /\ isProcessing' = isProcessing]_vars

\* C35 witness: one processQueue call threw after popping an item, and the other
\* call, which can only have started after that, is inside its loop with an item.
C35_Witness ==
    \E c, c2 \in DrainCalls :
        /\ drains[c].pc = "done"
        /\ drains[c].thrown
        /\ drains[c2].pc = "create"
        /\ isProcessing

\* the results a syncOrders call has recorded so far, or has returned
ResultsOf(c) ==
    IF sync[c].pc = "idle" THEN <<>>
    ELSE IF sync[c].pc = "done" THEN sync[c].response.results
    ELSE sync[c].results

\* whether event ev is in the history of item k of call c
Happened(c, ev, k) ==
    /\ sync[c].pc # "idle"
    /\ \E t \in DOMAIN sync[c].trace : sync[c].trace[t].ev = ev /\ sync[c].trace[t].at = k

\* C36: the dedup lookup of syncOrders fails open: an item whose lookup was rejected
\* by the key-value store has been passed to createOrder, and its result is not the
\* failure of the lookup.
C36_DedupLookupFailsOpen ==
    \A c \in SyncCalls :
        \A k \in DOMAIN ResultsOf(c) :
            Happened(c, "getFailed", k) =>
                /\ Happened(c, "createStart", k)
                /\ ResultsOf(c)[k].success \/ ResultsOf(c)[k].error # StoreError

\* C37: a sync result with success = false means that no Order was persisted for
\* that item, also when createOrder succeeded and the write of the dedup mapping
\* that follows it failed.
C37_FailedResultMeansNoOrder ==
    \A c \in SyncCalls :
        \A k \in DOMAIN ResultsOf(c) :
            ~ResultsOf(c)[k].success =>
                \A o \in sync[c].created : o.at # k

\* the menu items and quantities of a list of submitted items or of order lines
Requested(items) ==
    [i \in DOMAIN items |-> [menuItemId |-> items[i].menuItemId,
                             quantity |-> items[i].quantity]]

\* C38: syncOrders never reads or changes the customer's cart: the carts are what
\* they were before the first call, and every Order a call created holds exactly the
\* items of the batch item it was created for, also for an item whose list is empty.
C38_SyncLeavesCartAlone ==
    /\ carts = [u \in Users |->
                   IF u = "u1" THEN <<[menuItemId |-> "m2", quantity |-> 1]>> ELSE <<>>]
    /\ \A c \in SyncCalls :
          sync[c].pc # "idle" =>
              \A o \in sync[c].created :
                  Requested(orders[o.orderId].items) = Requested(sync[c].sorted[o.at].items)

\* C39: an order that is CANCELLED or DELIVERED has no delivery in ASSIGNED,
\* PICKED_UP or IN_TRANSIT, also after cancelOrder or updateOrderStatus on an order
\* that has a driver assigned.
C39_TerminalOrderHasNoActiveDelivery ==
    \A k \in DOMAIN deliveries :
        orders[deliveries[k].orderId].status \in {"CANCELLED", "DELIVERED"}
            => deliveries[k].status \notin ActiveDeliveryStatus

\* the deliveries of driver d that are DELIVERED
DeliveredBy(d) ==
    {k \in DOMAIN deliveries :
        deliveries[k].driverId = d /\ deliveries[k].status = "DELIVERED"}

\* C40: each driver's totalDeliveries is the number of that driver's deliveries in
\* status DELIVERED: it is incremented once per delivery, on the transition into
\* DELIVERED, and nothing else changes it.
C40_CounterMatchesDelivered ==
    \A d \in DriverIds : drivers[d].totalDeliveries = Cardinality(DeliveredBy(d))

=============================================================================
